---- MODULE Spec2Model ----
(***************************************************************************)
(* A model of the cascade package (github.com/thedeltaflyer/cascade): a    *)
(* tree of Cascade objects, the activities that Mark/UnMark them, the      *)
(* actions queued with DoOnKill/DoFirstOnKill and the goroutines that run  *)
(* Kill/Cancel.  Every lock-protected block of the Go code is one atomic   *)
(* step; the steps of one call are sequenced by a program counter.         *)
(***************************************************************************)
EXTENDS Integers, Sequences, FiniteSets, TLC

\* ---------------------------------------------------------------- bounds
MaxScopes == 2      \* Cascades ever created (the root included)
MaxActs == 1        \* goroutines that Mark and later UnMark a Cascade
MaxHooks == 1       \* actions queued on one Cascade of the tree
MaxQueue == 3       \* actions queued on the single Cascade of QueueSpec
MaxMarks == 2       \* goroutines that Mark the single Cascade of GateSpec
MaxLive == 2        \* Cascades of the trees FairSpec starts from
MaxCallers == 2     \* goroutines that call Kill, Cancel or a WithError variant
MaxTokens == 3      \* Contexts ever created, by the program or by the package
MaxTree == 3        \* Cascades of the trees with inner nodes and siblings

Widest(a, b) == IF a > b THEN a ELSE b

ScopeId == 1..Widest(Widest(MaxScopes, MaxLive), MaxTree)
ActId == 1..(IF MaxActs > MaxMarks THEN MaxActs ELSE MaxMarks)
CallerId == 1..MaxCallers
NoScope == 0
NoError == 0        \* the nil error
TokenId == 1..MaxTokens
Background == 0     \* context.Background(), as a Context and as a map key
NoCtx == -1         \* the nil Context

VARIABLES
    nscopes,      \* number of Cascades created so far; they are 1..nscopes
    parent,       \* Cascade.parent (NoScope for a root)
    children,     \* Cascade.children, the keys of the map
    childrenNil,  \* TRUE once Cascade.children has been set to nil
    dying,        \* the dying channel is closed
    dead,         \* the dead channel is closed
    done,         \* the done channel is closed
    isDead,       \* Cascade.isDead
    actions,      \* Cascade.actions, a sequence of action identifiers
    onceActions,  \* Cascade.onceActions has fired
    tracked,      \* Cascade.tracked
    pc,           \* position of the goroutine that drives the shutdown of a Cascade
    mode,         \* "kill" or "cancel": the call that won the isDead test
    fan,          \* the goroutine a parent's Kill/Cancel spawned for this child
    wg,           \* the counter of the WaitGroup of a driving Kill/Cancel
    ran,          \* the actions started so far by runActions, in order
    running,      \* an action of this Cascade is executing
    apc,          \* position of an activity goroutine
    ascope,       \* the Cascade an activity marked
    early,        \* history: the activity incremented tracked while isDead was false
    ops,          \* history: the DoOnKill ("a") / DoFirstOnKill ("p") calls, in order
    late,         \* history: an action was queued after isDead was set
    kids0,        \* history: the children map when the Cascade's isDead was set
    panicked,     \* a call panicked: the process is gone
    err,          \* Cascade.err (NoError for nil)
    cpc,          \* position of a goroutine that calls Kill, Cancel or a WithError variant
    cop,          \* the function that goroutine called
    cfrom,        \* the Cascade it called the function on
    cscope,       \* the Cascade whose Kill/Cancel the call reaches (the root for ...All...)
    cres,         \* what the call returned to the goroutine ("none": nothing, or not yet)
    cinner,       \* what KillWithError/CancelWithError returned inside the call
    cwon,         \* history: the call found isDead false and drives the shutdown
    cdone,        \* history: done of cscope was closed when the call returned
    ntok,         \* number of Contexts created so far; they are 1..ntok
    tparent,      \* the parent a Context was derived from with context.WithCancel
    tcancel,      \* the cancel function of the Context has been called
    towner,       \* history: the Cascade whose Context/WithContext returned the Context
    tearly,       \* history: that call returned while isDead of the Cascade was false
    tshut,        \* history: that call began with dying, dead or done of the Cascade closed
    ctx,          \* Cascade.ctx (NoCtx for nil)
    trackedCtx,   \* Cascade.trackedCtx, a set of <<key, Context>> entries
    ctxNil,       \* TRUE once Cascade.trackedCtx has been set to nil
    wpc,          \* position of the goroutine linkWithContext started for a Cascade
    dpc,          \* position of the goroutine that calls Context and WithContext
    dscope,       \* the Cascade of its call
    dkey,         \* the parent Context of its call, the key into trackedCtx
    dtok,         \* the Context its call created
    dshut,        \* dying, dead or done of the Cascade was closed when its call began
    dleft,        \* the entries the loop of linkTrackedContext has still to visit
    dnil          \* its call is Context(nil) and found c.ctx nil

treeVars == <<nscopes, parent, children, childrenNil>>
sigVars == <<dying, dead, done, isDead>>
hookVars == <<actions, onceActions, ran, running, ops, late>>
drvVars == <<pc, mode, fan, wg, kids0>>
actVars == <<apc, ascope, early>>
callVars == <<cpc, cop, cfrom, cscope, cres, cinner, cwon, cdone>>
tokVars == <<ntok, tparent, tcancel, towner, tearly, tshut>>
mapVars == <<ctx, trackedCtx, ctxNil>>
drvCtxVars == <<dpc, dscope, dkey, dtok, dshut, dleft, dnil>>
ctxVars == <<tokVars, mapVars, wpc, drvCtxVars>>
vars == <<treeVars, sigVars, hookVars, drvVars, actVars, tracked, panicked, err, callVars, ctxVars>>

Scopes == 1..nscopes

\* ------------------------------------------------------------ construction
\* No error is set, no goroutine has called anything yet and no Context
\* has been created or linked.
NoCalls ==
    /\ err = [s \in ScopeId |-> NoError]
    /\ cpc = [t \in CallerId |-> "idle"]
    /\ cop = [t \in CallerId |-> "none"]
    /\ cfrom = [t \in CallerId |-> NoScope]
    /\ cscope = [t \in CallerId |-> NoScope]
    /\ cres = [t \in CallerId |-> "none"]
    /\ cinner = [t \in CallerId |-> "none"]
    /\ cwon = [t \in CallerId |-> FALSE]
    /\ cdone = [t \in CallerId |-> FALSE]
    /\ ntok = 0
    /\ tparent = [k \in TokenId |-> Background]
    /\ tcancel = [k \in TokenId |-> FALSE]
    /\ towner = [k \in TokenId |-> NoScope]
    /\ tearly = [k \in TokenId |-> FALSE]
    /\ tshut = [k \in TokenId |-> FALSE]
    /\ ctx = [s \in ScopeId |-> NoCtx]
    /\ trackedCtx = [s \in ScopeId |-> {}]
    /\ ctxNil = [s \in ScopeId |-> FALSE]
    /\ wpc = [s \in ScopeId |-> "none"]
    /\ dpc = "idle"
    /\ dscope = NoScope
    /\ dkey = NoCtx
    /\ dtok = 0
    /\ dshut = FALSE
    /\ dleft = {}
    /\ dnil = FALSE

\* The fields of a Cascade returned by RootCascade(), for every identifier.
RootCascade(n) ==
    /\ nscopes = n
    /\ parent = [s \in ScopeId |-> NoScope]
    /\ children = [s \in ScopeId |-> {}]
    /\ childrenNil = [s \in ScopeId |-> FALSE]
    /\ dying = [s \in ScopeId |-> FALSE]
    /\ dead = [s \in ScopeId |-> FALSE]
    /\ done = [s \in ScopeId |-> FALSE]
    /\ isDead = [s \in ScopeId |-> FALSE]
    /\ actions = [s \in ScopeId |-> <<>>]
    /\ onceActions = [s \in ScopeId |-> FALSE]
    /\ tracked = [s \in ScopeId |-> 0]
    /\ pc = [s \in ScopeId |-> "idle"]
    /\ mode = [s \in ScopeId |-> "none"]
    /\ fan = [s \in ScopeId |-> "none"]
    /\ wg = [s \in ScopeId |-> 0]
    /\ ran = [s \in ScopeId |-> <<>>]
    /\ running = [s \in ScopeId |-> FALSE]
    /\ apc = [a \in ActId |-> "idle"]
    /\ ascope = [a \in ActId |-> NoScope]
    /\ early = [a \in ActId |-> FALSE]
    /\ ops = [s \in ScopeId |-> <<>>]
    /\ late = [s \in ScopeId |-> FALSE]
    /\ kids0 = [s \in ScopeId |-> {}]
    /\ panicked = FALSE
    /\ NoCalls

Init == RootCascade(1)

\* ChildCascade: a fresh Cascade whose parent is p, stored in p.children.
\* A store into the nil map that closeAndClean leaves behind panics.
ChildCascade(p) ==
    /\ ~panicked
    /\ p \in Scopes
    /\ nscopes < MaxScopes
    /\ IF childrenNil[p]
         THEN /\ panicked' = TRUE
              /\ UNCHANGED <<treeVars>>
         ELSE /\ nscopes' = nscopes + 1
              /\ parent' = [parent EXCEPT ![nscopes + 1] = p]
              /\ children' = [children EXCEPT ![p] = @ \cup {nscopes + 1}]
              /\ UNCHANGED <<childrenNil, panicked>>
    /\ UNCHANGED <<sigVars, hookVars, drvVars, actVars, tracked, err, callVars, ctxVars>>

\* ---------------------------------------------------------------- actions
\* DoOnKill: append to Cascade.actions.  The call takes muActions, which
\* runActions holds from its first action to its last.
ActionsLocked(s) == pc[s] = "hooks"

\* c.muCtx is held by the linkTrackedContext of a Context call, from its
\* store to the end of its loop.
CtxLocked(s) == dpc = "sweep" /\ dscope = s

NewHook(s) == Len(actions[s]) + 1

DoOnKill(s, cap) ==
    /\ ~panicked
    /\ s \in Scopes
    /\ ~ActionsLocked(s)
    /\ Len(actions[s]) < cap
    /\ actions' = [actions EXCEPT ![s] = Append(@, NewHook(s))]
    /\ ops' = [ops EXCEPT ![s] = Append(@, "a")]
    /\ late' = [late EXCEPT ![s] = @ \/ isDead[s]]
    /\ UNCHANGED <<treeVars, sigVars, onceActions, ran, running, drvVars, actVars,
                   tracked, panicked, err, callVars, ctxVars>>

\* DoFirstOnKill that appends, as DoOnKill does.
DoFirstOnKillAtTail(s, cap) ==
    /\ ~panicked
    /\ s \in Scopes
    /\ ~ActionsLocked(s)
    /\ Len(actions[s]) < cap
    /\ actions' = [actions EXCEPT ![s] = Append(@, NewHook(s))]
    /\ ops' = [ops EXCEPT ![s] = Append(@, "p")]
    /\ late' = [late EXCEPT ![s] = @ \/ isDead[s]]
    /\ UNCHANGED <<treeVars, sigVars, onceActions, ran, running, drvVars, actVars,
                   tracked, panicked, err, callVars, ctxVars>>

\* DoFirstOnKill: a new slice holding the action followed by Cascade.actions.
DoFirstOnKill(s, cap) ==
    /\ ~panicked
    /\ s \in Scopes
    /\ ~ActionsLocked(s)
    /\ Len(actions[s]) < cap
    /\ actions' = [actions EXCEPT ![s] = <<NewHook(s)>> \o @]
    /\ ops' = [ops EXCEPT ![s] = Append(@, "p")]
    /\ late' = [late EXCEPT ![s] = @ \/ isDead[s]]
    /\ UNCHANGED <<treeVars, sigVars, onceActions, ran, running, drvVars, actVars,
                   tracked, panicked, err, callVars, ctxVars>>

\* ------------------------------------------------------------ Kill, Cancel
\* The test-and-set of isDead under muDead that opens Kill and Cancel.  The
\* caller that finds isDead false drives the shutdown; any other returns.
Enter(s, m) ==
    /\ isDead' = [isDead EXCEPT ![s] = TRUE]
    /\ mode' = [mode EXCEPT ![s] = m]
    /\ pc' = [pc EXCEPT ![s] = "spawn"]
    /\ kids0' = [kids0 EXCEPT ![s] = children[s]]

Kill(s) ==
    /\ ~panicked
    /\ s \in Scopes
    /\ IF ~isDead[s]
         THEN /\ Enter(s, "kill")
              /\ UNCHANGED <<fan, wg>>
         ELSE UNCHANGED <<isDead, drvVars>>
    /\ UNCHANGED <<treeVars, dying, dead, done, hookVars, actVars, tracked, panicked, err, callVars, ctxVars>>

Cancel(s) ==
    /\ ~panicked
    /\ s \in Scopes
    /\ IF ~isDead[s]
         THEN /\ Enter(s, "cancel")
              /\ UNCHANGED <<fan, wg>>
         ELSE UNCHANGED <<isDead, drvVars>>
    /\ UNCHANGED <<treeVars, dying, dead, done, hookVars, actVars, tracked, panicked, err, callVars, ctxVars>>

\* A KillAll that goes one Cascade up and no further.
RootOfParent(s) == IF parent[s] = NoScope THEN s ELSE parent[s]

\* The root that KillAll/CancelAll reach by following parent.
RECURSIVE RootOf(_)
RootOf(s) == IF parent[s] = NoScope THEN s ELSE RootOf(parent[s])

KillAll(s) ==
    /\ s \in Scopes
    /\ Kill(RootOf(s))

CancelAll(s) ==
    /\ s \in Scopes
    /\ Cancel(RootOf(s))

\* The loop over c.children under muChildren: one goroutine and one
\* wg.Add(1) for every child in the map (none when the map is nil).
spawnChildren(s) ==
    /\ ~panicked
    /\ pc[s] = "spawn"
    /\ fan' = [c \in ScopeId |-> IF c \in children[s] THEN "spawned" ELSE fan[c]]
    /\ wg' = [wg EXCEPT ![s] = Cardinality(children[s])]
    /\ pc' = [pc EXCEPT ![s] = "wgwait"]
    /\ UNCHANGED <<treeVars, sigVars, hookVars, mode, kids0, actVars, tracked, panicked, err, callVars, ctxVars>>

\* The goroutine of the loop: ch.Kill() or ch.Cancel(), then wg.Done().
\* When ch.isDead is already set the call returns at once.
childCall(ch) ==
    /\ ~panicked
    /\ fan[ch] = "spawned"
    /\ IF ~isDead[ch]
         THEN /\ Enter(ch, mode[parent[ch]])
              /\ fan' = [fan EXCEPT ![ch] = "driving"]
              /\ UNCHANGED wg
         ELSE /\ fan' = [fan EXCEPT ![ch] = "finished"]
              /\ wg' = [wg EXCEPT ![parent[ch]] = @ - 1]
              /\ UNCHANGED <<isDead, mode, pc, kids0>>
    /\ UNCHANGED <<treeVars, dying, dead, done, hookVars, actVars, tracked, panicked, err, callVars, ctxVars>>

\* wg.Wait() returns, and closeAndClean starts: c.children = nil
clearChildren(s) ==
    /\ ~panicked
    /\ pc[s] = "wgwait"
    /\ wg[s] = 0
    /\ children' = [children EXCEPT ![s] = {}]
    /\ childrenNil' = [childrenNil EXCEPT ![s] = TRUE]
    /\ pc' = [pc EXCEPT ![s] = "dying"]
    /\ UNCHANGED <<nscopes, parent, sigVars, hookVars, mode, fan, wg, kids0,
                   actVars, tracked, panicked, err, callVars, ctxVars>>

\* A close of dying that calls the cancel functions of c.trackedCtx too.
closeDyingAndCancel(s) ==
    /\ ~panicked
    /\ pc[s] = "dying"
    /\ dying' = [dying EXCEPT ![s] = TRUE]
    /\ tcancel' = [k \in TokenId |-> tcancel[k] \/ \E e \in trackedCtx[s] : e[2] = k]
    /\ pc' = [pc EXCEPT ![s] = "gate"]
    /\ UNCHANGED <<treeVars, dead, done, isDead, hookVars, mode, fan, wg, kids0,
                   actVars, tracked, panicked, err, callVars, ntok, tparent, towner,
                   tearly, tshut, mapVars, wpc, drvCtxVars>>

\* onceDying: close(c.dying)
closeDying(s) ==
    /\ ~panicked
    /\ pc[s] = "dying"
    /\ dying' = [dying EXCEPT ![s] = TRUE]
    /\ pc' = [pc EXCEPT ![s] = "gate"]
    /\ UNCHANGED <<treeVars, dead, done, isDead, hookVars, mode, fan, wg, kids0,
                   actVars, tracked, panicked, err, callVars, ctxVars>>

\* A test that passes whatever c.tracked holds.
GateOpenAlways(s) == TRUE

\* The test every closer of dead makes under muTracked.
GateOpen(s) == tracked[s] = 0

\* closeAndClean that runs the actions whatever its argument.
AfterDeadRun(s) == "runActions"

\* Where closeAndClean goes once dead is closed: runActions for Kill only.
AfterDead(s) == IF mode[s] = "kill" THEN "runActions" ELSE "cancelCtx"

\* closeAndClean that goes on without c.Wait().
GateNextNoWait(s) == AfterDead(s)

\* Where the test sends closeAndClean: on, or into c.Wait().
GateNext(s) == IF GateOpen(s) THEN AfterDead(s) ELSE "wait"

\* if c.tracked == 0 { onceDead: close(c.dead) } else { c.Wait() }
gate(s) ==
    /\ ~panicked
    /\ pc[s] = "gate"
    /\ dead' = [dead EXCEPT ![s] = @ \/ GateOpen(s)]
    /\ pc' = [pc EXCEPT ![s] = GateNext(s)]
    /\ UNCHANGED <<treeVars, dying, done, isDead, hookVars, mode, fan, wg, kids0,
                   actVars, tracked, panicked, err, callVars, ctxVars>>

\* A c.Wait() that returns whether or not dead is closed.
WaitNoBlock(s) ==
    /\ ~panicked
    /\ pc[s] = "wait"
    /\ pc' = [pc EXCEPT ![s] = AfterDead(s)]
    /\ UNCHANGED <<treeVars, sigVars, hookVars, mode, fan, wg, kids0, actVars,
                   tracked, panicked, err, callVars, ctxVars>>

\* c.Wait() returns: <-c.dead
Wait(s) ==
    /\ ~panicked
    /\ pc[s] = "wait"
    /\ dead[s]
    /\ pc' = [pc EXCEPT ![s] = AfterDead(s)]
    /\ UNCHANGED <<treeVars, sigVars, hookVars, mode, fan, wg, kids0, actVars,
                   tracked, panicked, err, callVars, ctxVars>>

\* runActions: onceActions.Do takes muActions and starts the loop over the
\* slice c.actions holds at that moment.
runActions(s) ==
    /\ ~panicked
    /\ pc[s] = "runActions"
    /\ IF onceActions[s]
         THEN /\ pc' = [pc EXCEPT ![s] = "cancelCtx"]
              /\ UNCHANGED onceActions
         ELSE /\ onceActions' = [onceActions EXCEPT ![s] = TRUE]
              /\ pc' = [pc EXCEPT ![s] = "hooks"]
    /\ UNCHANGED <<treeVars, sigVars, actions, ran, running, ops, late, mode, fan, wg,
                   kids0, actVars, tracked, panicked, err, callVars, ctxVars>>

\* The actions the loop has still to call, and the log after the next call.
NextAction(s) == actions[s][Len(ran[s]) + 1]

\* A loop body that calls the action twice.
CalledTwice(log, h) == Append(Append(log, h), h)

Called(log, h) == Append(log, h)

\* action() is called for the next element of the slice
hookStart(s) ==
    /\ ~panicked
    /\ pc[s] = "hooks"
    /\ ~running[s]
    /\ Len(ran[s]) < Len(actions[s])
    /\ ran' = [ran EXCEPT ![s] = Called(@, NextAction(s))]
    /\ running' = [running EXCEPT ![s] = TRUE]
    /\ UNCHANGED <<treeVars, sigVars, actions, onceActions, ops, late, drvVars,
                   actVars, tracked, panicked, err, callVars, ctxVars>>

\* action() returns
hookReturn(s) ==
    /\ ~panicked
    /\ pc[s] = "hooks"
    /\ running[s]
    /\ running' = [running EXCEPT ![s] = FALSE]
    /\ UNCHANGED <<treeVars, sigVars, actions, onceActions, ran, ops, late, drvVars,
                   actVars, tracked, panicked, err, callVars, ctxVars>>

\* the loop is over: muActions is released and runActions returns
hooksEnd(s) ==
    /\ ~panicked
    /\ pc[s] = "hooks"
    /\ ~running[s]
    /\ Len(ran[s]) = Len(actions[s])
    /\ pc' = [pc EXCEPT ![s] = "cancelCtx"]
    /\ UNCHANGED <<treeVars, sigVars, hookVars, mode, fan, wg, kids0, actVars,
                   tracked, panicked, err, callVars, ctxVars>>

\* <-k.Done() does not block: k or one of the Contexts it derives from has
\* been cancelled.  context.Background() never is.
RECURSIVE IsDone(_)
IsDone(k) == IF k = Background THEN FALSE ELSE tcancel[k] \/ IsDone(tparent[k])

\* The Contexts c.trackedCtx holds.
Tracked(s) == {e[2] : e \in trackedCtx[s]}

\* A loop over c.trackedCtx that finds nothing to do.
PendingNone(s) == {}

\* The entries of c.trackedCtx whose cancel function has not been called
\* yet.  A cancel function called again does nothing, so these are the
\* iterations of the loop of cancelTrackedContexts that change anything.
Pending(s) == {e \in trackedCtx[s] : ~tcancel[e[2]]}

\* A cancel that reaches the key of the entry as well.
CancelEntryAndKey(e) == [k \in TokenId |-> tcancel[k] \/ k \in {e[1], e[2]}]

\* tracked.cancel() of one entry of the map
CancelEntry(e) == [k \in TokenId |-> tcancel[k] \/ k = e[2]]

\* c.muCtx is held by cancelTrackedContexts, between two iterations of its
\* loop or before c.trackedCtx = nil.
CancelLocked(s) == pc[s] = "cancelling"

\* cancelTrackedContexts with muCtx held: one iteration of for _, tracked
\* := range c.trackedCtx { tracked.cancel() }, the entries in any order;
\* when no cancel function is left to call, c.trackedCtx = nil and
\* c.muCtx.Unlock().
cancelLoop(s) ==
    /\ IF Pending(s) = {}
         THEN /\ trackedCtx' = [trackedCtx EXCEPT ![s] = {}]
              /\ ctxNil' = [ctxNil EXCEPT ![s] = TRUE]
              /\ pc' = [pc EXCEPT ![s] = "remove"]
              /\ UNCHANGED tcancel
         ELSE /\ \E e \in Pending(s) : tcancel' = CancelEntry(e)
              /\ pc' = [pc EXCEPT ![s] = "cancelling"]
              /\ UNCHANGED <<trackedCtx, ctxNil>>
    /\ UNCHANGED <<treeVars, sigVars, hookVars, mode, fan, wg, kids0, actVars,
                   tracked, panicked, err, callVars, ntok, tparent, towner, tearly, tshut,
                   ctx, wpc, drvCtxVars>>

\* cancelTrackedContexts: c.muCtx.Lock(), which waits for a
\* linkTrackedContext that holds it, and the loop up to its first call of
\* a cancel function, or all of it when there is none to call.
cancelTrackedContexts(s) ==
    /\ ~panicked
    /\ pc[s] = "cancelCtx"
    /\ ~CtxLocked(s)
    /\ cancelLoop(s)

\* cancelTrackedContexts, the later iterations of its loop and its end.
cancelNext(s) ==
    /\ ~panicked
    /\ pc[s] = "cancelling"
    /\ cancelLoop(s)

\* A shutdown that empties the children of its parent.
removeChildAll(s) ==
    /\ ~panicked
    /\ pc[s] = "remove"
    /\ children' = IF parent[s] # NoScope
                     THEN [children EXCEPT ![parent[s]] = {}]
                     ELSE children
    /\ pc' = [pc EXCEPT ![s] = "done"]
    /\ UNCHANGED <<nscopes, parent, childrenNil, sigVars, hookVars, mode, fan, wg,
                   kids0, actVars, tracked, panicked, err, callVars, ctxVars>>

\* A shutdown that leaves the Cascade in the children of its parent.
removeChildKeep(s) ==
    /\ ~panicked
    /\ pc[s] = "remove"
    /\ pc' = [pc EXCEPT ![s] = "done"]
    /\ UNCHANGED <<treeVars, sigVars, hookVars, mode, fan, wg,
                   kids0, actVars, tracked, panicked, err, callVars, ctxVars>>

\* if c.parent != nil { c.parent.removeChild(c) }: delete from the parent's
\* map, which does nothing when the key is absent or the map is nil.
\* c.parent.removeChild(c): delete(c.children, child) under muChildren
removeChild(s) ==
    /\ ~panicked
    /\ pc[s] = "remove"
    /\ children' = IF parent[s] # NoScope
                     THEN [children EXCEPT ![parent[s]] = @ \ {s}]
                     ELSE children
    /\ pc' = [pc EXCEPT ![s] = "done"]
    /\ UNCHANGED <<nscopes, parent, childrenNil, sigVars, hookVars, mode, fan, wg,
                   kids0, actVars, tracked, panicked, err, callVars, ctxVars>>

\* onceDone: close(c.done)
closeDone(s) ==
    /\ ~panicked
    /\ pc[s] = "done"
    /\ done' = [done EXCEPT ![s] = TRUE]
    /\ pc' = [pc EXCEPT ![s] = "return"]
    /\ UNCHANGED <<treeVars, dying, dead, isDead, hookVars, mode, fan, wg, kids0,
                   actVars, tracked, panicked, err, callVars, ctxVars>>

\* Kill/Cancel returns to its caller; the goroutine a parent spawned then
\* calls wg.Done().
return(s) ==
    /\ ~panicked
    /\ pc[s] = "return"
    /\ pc' = [pc EXCEPT ![s] = "finished"]
    /\ IF fan[s] = "driving"
         THEN /\ fan' = [fan EXCEPT ![s] = "finished"]
              /\ wg' = [wg EXCEPT ![parent[s]] = @ - 1]
         ELSE UNCHANGED <<fan, wg>>
    /\ UNCHANGED <<treeVars, sigVars, hookVars, mode, kids0, actVars, tracked, panicked, err, callVars, ctxVars>>

\* ------------------------------------------------------------ Mark, UnMark
\* Mark: c.tracked++ under muTracked
Mark(a, s) ==
    /\ ~panicked
    /\ s \in Scopes
    /\ apc[a] = "idle"
    /\ tracked' = [tracked EXCEPT ![s] = @ + 1]
    /\ apc' = [apc EXCEPT ![a] = "markIsDead"]
    /\ ascope' = [ascope EXCEPT ![a] = s]
    /\ early' = [early EXCEPT ![a] = ~isDead[s]]
    /\ UNCHANGED <<treeVars, sigVars, hookVars, drvVars, panicked, err, callVars, ctxVars>>

\* A test of c.IsDead() that always finds the Cascade alive.
readNotDead(a, from, yes, no) ==
    /\ ~panicked
    /\ apc[a] = from
    /\ apc' = [apc EXCEPT ![a] = no]
    /\ UNCHANGED <<treeVars, sigVars, hookVars, drvVars, ascope, early, tracked, panicked, err, callVars, ctxVars>>

\* Mark, UnMark: if c.IsDead()
readIsDead(a, from, yes, no) ==
    /\ ~panicked
    /\ apc[a] = from
    /\ apc' = [apc EXCEPT ![a] = IF isDead[ascope[a]] THEN yes ELSE no]
    /\ UNCHANGED <<treeVars, sigVars, hookVars, drvVars, ascope, early, tracked, panicked, err, callVars, ctxVars>>

\* A re-check that stores the outcome of the test, open or not.
recheckStore(a, from, to) ==
    /\ ~panicked
    /\ apc[a] = from
    /\ dead' = [dead EXCEPT ![ascope[a]] = GateOpen(ascope[a])]
    /\ apc' = [apc EXCEPT ![a] = to]
    /\ UNCHANGED <<treeVars, dying, done, isDead, hookVars, drvVars, ascope, early,
                   tracked, panicked, err, callVars, ctxVars>>

\* A re-check that leaves dead as it is.
recheckNoClose(a, from, to) ==
    /\ ~panicked
    /\ apc[a] = from
    /\ apc' = [apc EXCEPT ![a] = to]
    /\ UNCHANGED <<treeVars, sigVars, hookVars, drvVars, ascope, early, tracked, panicked, err, callVars, ctxVars>>

\* Mark, UnMark: if c.tracked == 0 { onceDead: close(c.dead) } under muTracked
recheck(a, from, to) ==
    /\ ~panicked
    /\ apc[a] = from
    /\ dead' = [dead EXCEPT ![ascope[a]] = @ \/ GateOpen(ascope[a])]
    /\ apc' = [apc EXCEPT ![a] = to]
    /\ UNCHANGED <<treeVars, dying, done, isDead, hookVars, drvVars, ascope, early,
                   tracked, panicked, err, callVars, ctxVars>>

MarkIsDead(a) == readIsDead(a, "markIsDead", "markGate", "marked")

MarkGate(a) == recheck(a, "markGate", "marked")

\* UnMark: c.tracked-- under muTracked, by a goroutine whose Mark has returned
UnMark(a) ==
    /\ ~panicked
    /\ apc[a] = "marked"
    /\ tracked' = [tracked EXCEPT ![ascope[a]] = @ - 1]
    /\ apc' = [apc EXCEPT ![a] = "unmarkIsDead"]
    /\ UNCHANGED <<treeVars, sigVars, hookVars, drvVars, ascope, early, panicked, err, callVars, ctxVars>>

\* UnMark by a goroutine that has not called Mark: c.tracked-- under
\* muTracked, from whatever value it has.
StrayUnMark(a, s) ==
    /\ ~panicked
    /\ s \in Scopes
    /\ apc[a] = "idle"
    /\ tracked' = [tracked EXCEPT ![s] = @ - 1]
    /\ apc' = [apc EXCEPT ![a] = "unmarkIsDead"]
    /\ ascope' = [ascope EXCEPT ![a] = s]
    /\ UNCHANGED <<treeVars, sigVars, hookVars, drvVars, early, panicked, err, callVars, ctxVars>>

UnMarkIsDead(a) == readIsDead(a, "unmarkIsDead", "unmarkGate", "exited")

UnMarkGate(a) == recheck(a, "unmarkGate", "exited")

\* One step of the goroutine a that changes only where it is.
loopStep(a, from, to) ==
    /\ ~panicked
    /\ apc[a] = from
    /\ apc' = [apc EXCEPT ![a] = to]
    /\ UNCHANGED <<treeVars, sigVars, hookVars, drvVars, ascope, early, tracked,
                   panicked, err, callVars, ctxVars>>

\* A select that never finds c.Dying() ready.
SeesDyingNever(s) == FALSE

\* select { case <-c.Dying(): ... default: ... }: the case is taken when
\* dying is closed, the default otherwise.
SeesDying(s) == dying[s]

\* WrapInLoop after c.Mark() has returned: the for loop begins.
WrapInLoop(a) == loopStep(a, "marked", "top")

\* WrapInLoop, top of an iteration: return on dying, else f() is called.
loopTop(a) == loopStep(a, "top", IF SeesDying(ascope[a]) THEN "loopExit" ELSE "inF")

\* f() returns
loopReturn(a) == loopStep(a, "inF", "top")

\* WrapInLoopWithBool after c.Mark() has returned: the for loop begins.
WrapInLoopWithBool(a) == loopStep(a, "marked", "topBool")

\* WrapInLoopWithBool, top of an iteration
loopTopBool(a) ==
    loopStep(a, "topBool", IF SeesDying(ascope[a]) THEN "loopExit" ELSE "inFBool")

\* fDone = f(): f returns true or false
loopReturnBool(a) ==
    \E b \in {"retTrue", "retFalse"} : loopStep(a, "inFBool", b)

\* if !fDone { return }
loopTest(a) ==
    \/ loopStep(a, "retTrue", "topBool")
    \/ loopStep(a, "retFalse", "loopExit")

\* The deferred c.UnMark() of a wrapper that returns: c.tracked-- under
\* muTracked.
loopUnMark(a) ==
    /\ ~panicked
    /\ apc[a] = "loopExit"
    /\ tracked' = [tracked EXCEPT ![ascope[a]] = @ - 1]
    /\ apc' = [apc EXCEPT ![a] = "unmarkIsDead"]
    /\ UNCHANGED <<treeVars, sigVars, hookVars, drvVars, ascope, early, panicked, err, callVars, ctxVars>>

\* A goroutine that runs c.WrapInLoop(f) or c.WrapInLoopWithBool(f) on s.
Looper(a, s) ==
    \/ Mark(a, s)
    \/ MarkIsDead(a)
    \/ MarkGate(a)
    \/ WrapInLoop(a)
    \/ loopTop(a)
    \/ loopReturn(a)
    \/ WrapInLoopWithBool(a)
    \/ loopTopBool(a)
    \/ loopReturnBool(a)
    \/ loopTest(a)
    \/ loopUnMark(a)
    \/ UnMarkIsDead(a)
    \/ UnMarkGate(a)

\* Go(f), GoInLoop(f), GoInLoopWithBool(f) on p: child := p.ChildCascade(),
\* then the go statement that starts child.Wrap(f) (or the loop variant)
\* as the goroutine a, and the return of child.  The store into a nil
\* children map panics.
Go(p, a) ==
    /\ ~panicked
    /\ p \in Scopes
    /\ nscopes < MaxScopes
    /\ apc[a] = "idle"
    /\ IF childrenNil[p]
         THEN /\ panicked' = TRUE
              /\ UNCHANGED <<treeVars, actVars>>
         ELSE /\ nscopes' = nscopes + 1
              /\ parent' = [parent EXCEPT ![nscopes + 1] = p]
              /\ children' = [children EXCEPT ![p] = @ \cup {nscopes + 1}]
              /\ apc' = [apc EXCEPT ![a] = "spawned"]
              /\ ascope' = [ascope EXCEPT ![a] = nscopes + 1]
              /\ UNCHANGED <<childrenNil, panicked, early>>
    /\ UNCHANGED <<sigVars, hookVars, drvVars, tracked, err, callVars, ctxVars>>

\* Wrap, WrapInLoop, WrapInLoopWithBool in the started goroutine: c.Mark(),
\* its first statement, changes c.tracked.
WrapMark(a) ==
    /\ ~panicked
    /\ apc[a] = "spawned"
    /\ tracked' = [tracked EXCEPT ![ascope[a]] = @ + 1]
    /\ apc' = [apc EXCEPT ![a] = "markIsDead"]
    /\ early' = [early EXCEPT ![a] = ~isDead[ascope[a]]]
    /\ UNCHANGED <<treeVars, sigVars, hookVars, drvVars, ascope, panicked, err, callVars, ctxVars>>

\* The goroutine of a Go call: Mark, f (over when the deferred UnMark
\* begins), UnMark.
Wrapped(a) ==
    \/ WrapMark(a)
    \/ MarkIsDead(a)
    \/ MarkGate(a)
    \/ UnMark(a)
    \/ UnMarkIsDead(a)
    \/ UnMarkGate(a)

\* ------------------------------------------------- calls made by goroutines
\* The goroutine t calls op on the Cascade from; the Kill/Cancel the call
\* makes is on target.
Invoke(t, op, from, target) ==
    /\ ~panicked
    /\ cpc[t] = "idle"
    /\ from \in Scopes
    /\ cop' = [cop EXCEPT ![t] = op]
    /\ cfrom' = [cfrom EXCEPT ![t] = from]
    /\ cscope' = [cscope EXCEPT ![t] = target]

\* go c.Kill(), go c.Cancel(): the call is made and has yet to take muDead.
GoKill(t, s) ==
    /\ Invoke(t, "Kill", s, s)
    /\ cpc' = [cpc EXCEPT ![t] = "kill"]
    /\ UNCHANGED <<treeVars, sigVars, hookVars, drvVars, actVars, tracked, panicked,
                   err, cres, cinner, cwon, cdone, ctxVars>>

GoCancel(t, s) ==
    /\ Invoke(t, "Cancel", s, s)
    /\ cpc' = [cpc EXCEPT ![t] = "cancel"]
    /\ UNCHANGED <<treeVars, sigVars, hookVars, drvVars, actVars, tracked, panicked,
                   err, cres, cinner, cwon, cdone, ctxVars>>

\* go c.KillAll(), go c.CancelAll(): the call follows parent up to the root
\* and has yet to take muDead there.
GoKillAll(t, s) ==
    /\ Invoke(t, "KillAll", s, RootOf(s))
    /\ cpc' = [cpc EXCEPT ![t] = "kill"]
    /\ UNCHANGED <<treeVars, sigVars, hookVars, drvVars, actVars, tracked, panicked,
                   err, cres, cinner, cwon, cdone, ctxVars>>

GoCancelAll(t, s) ==
    /\ Invoke(t, "CancelAll", s, RootOf(s))
    /\ cpc' = [cpc EXCEPT ![t] = "cancel"]
    /\ UNCHANGED <<treeVars, sigVars, hookVars, drvVars, actVars, tracked, panicked,
                   err, cres, cinner, cwon, cdone, ctxVars>>

\* The error a goroutine passes: errors.New gives each its own.
NewError(t) == t

AllWithError == {"KillAllWithError", "CancelAllWithError"}

\* What the caller of op receives when its KillWithError/CancelWithError
\* returned r: KillAllWithError and CancelAllWithError have no result.
Returned(op, r) == IF op \in AllWithError THEN "none" ELSE r

\* A test that finds the slot free whatever it holds.
ErrIsNilAlways(s) == TRUE

\* if c.err != nil { return errors.New("cascade: error already set") }
ErrIsNil(s) == err[s] = NoError

\* A failed call that goes on to Kill/Cancel all the same.
AfterAlreadySetKill(m) == m

\* Where a call that found the error set goes: it returns.
AfterAlreadySet(m) == "returned"

\* The muErr block that opens KillWithError (m = "kill") and
\* CancelWithError (m = "cancel"), called on target.
setErr(t, op, from, target, m) ==
    /\ Invoke(t, op, from, target)
    /\ IF ErrIsNil(target)
         THEN /\ err' = [err EXCEPT ![target] = NewError(t)]
              /\ cpc' = [cpc EXCEPT ![t] = m]
              /\ UNCHANGED <<cres, cinner, cdone>>
         ELSE /\ cinner' = [cinner EXCEPT ![t] = "ErrorAlreadySet"]
              /\ cres' = [cres EXCEPT ![t] = Returned(op, "ErrorAlreadySet")]
              /\ cpc' = [cpc EXCEPT ![t] = AfterAlreadySet(m)]
              /\ cdone' = [cdone EXCEPT ![t] = done[target]]
              /\ UNCHANGED err
    /\ UNCHANGED <<treeVars, sigVars, hookVars, drvVars, actVars, tracked, panicked, cwon, ctxVars>>

KillWithError(t, s) == setErr(t, "KillWithError", s, s, "kill")

CancelWithError(t, s) == setErr(t, "CancelWithError", s, s, "cancel")

\* A KillAllWithError that sets the error one Cascade up.
ErrTargetParent(s) == IF parent[s] = NoScope THEN s ELSE parent[s]

\* KillAllWithError/CancelAllWithError follow parent up to the root.
ErrTarget(s) == RootOf(s)

KillAllWithError(t, s) == setErr(t, "KillAllWithError", s, ErrTarget(s), "kill")

CancelAllWithError(t, s) == setErr(t, "CancelAllWithError", s, ErrTarget(s), "cancel")

\* A test that finds every Cascade alive.
FindsAliveAlways(s) == TRUE

\* A test that finds a Cascade alive again once it is done.
FindsAliveOrDone(s) == ~isDead[s] \/ done[s]

\* if !c.isDead, under muDead
FindsAlive(s) == ~isDead[s]

\* The muDead block of the Kill/Cancel a goroutine's call has reached: the
\* call drives the shutdown, or finds isDead set and returns.
callKill(t) ==
    /\ ~panicked
    /\ cpc[t] \in {"kill", "cancel"}
    /\ IF FindsAlive(cscope[t])
         THEN /\ Enter(cscope[t], cpc[t])
              /\ cpc' = [cpc EXCEPT ![t] = "driving"]
              /\ cwon' = [cwon EXCEPT ![t] = TRUE]
              /\ UNCHANGED <<cres, cinner, cdone>>
         ELSE /\ cpc' = [cpc EXCEPT ![t] = "returned"]
              /\ cinner' = [cinner EXCEPT ![t] = "nil"]
              /\ cres' = [cres EXCEPT ![t] = Returned(cop[t], "nil")]
              /\ cdone' = [cdone EXCEPT ![t] = done[cscope[t]]]
              /\ UNCHANGED <<isDead, mode, pc, kids0, cwon>>
    /\ UNCHANGED <<treeVars, dying, dead, done, hookVars, fan, wg, actVars, tracked,
                   panicked, err, cop, cfrom, cscope, ctxVars>>

\* The Kill/Cancel that drove the shutdown has returned; so does the call.
callReturn(t) ==
    /\ ~panicked
    /\ cpc[t] = "driving"
    /\ pc[cscope[t]] = "finished"
    /\ cpc' = [cpc EXCEPT ![t] = "returned"]
    /\ cinner' = [cinner EXCEPT ![t] = "nil"]
    /\ cres' = [cres EXCEPT ![t] = Returned(cop[t], "nil")]
    /\ cdone' = [cdone EXCEPT ![t] = done[cscope[t]]]
    /\ UNCHANGED <<treeVars, sigVars, hookVars, drvVars, actVars, tracked, panicked,
                   err, cop, cfrom, cscope, cwon, ctxVars>>

\* A goroutine that calls Kill or Cancel on a Cascade.
Joiner(t) ==
    \/ \E s \in ScopeId : GoKill(t, s)
    \/ \E s \in ScopeId : GoCancel(t, s)
    \/ callKill(t)
    \/ callReturn(t)

\* A goroutine that calls KillAll or CancelAll on a Cascade.
Sweeper(t) ==
    \/ \E s \in ScopeId : GoKillAll(t, s)
    \/ \E s \in ScopeId : GoCancelAll(t, s)
    \/ callKill(t)
    \/ callReturn(t)

\* A goroutine that calls one of the WithError functions on a Cascade.
Failer(t) ==
    \/ \E s \in ScopeId : KillWithError(t, s)
    \/ \E s \in ScopeId : CancelWithError(t, s)
    \/ \E s \in ScopeId : KillAllWithError(t, s)
    \/ \E s \in ScopeId : CancelAllWithError(t, s)
    \/ callKill(t)
    \/ callReturn(t)

\* A goroutine that calls KillWithError or CancelWithError on a Cascade.
Blamer(t) ==
    \/ \E s \in ScopeId : KillWithError(t, s)
    \/ \E s \in ScopeId : CancelWithError(t, s)
    \/ callKill(t)
    \/ callReturn(t)

\* ---------------------------------------------------------------- Contexts
\* ctx, cancel := context.WithCancel(context.Background()) in the program:
\* a Context no Cascade returned.
WithCancel ==
    /\ ~panicked
    /\ ntok < MaxTokens
    /\ ntok' = ntok + 1
    /\ tparent' = [tparent EXCEPT ![ntok + 1] = Background]
    /\ UNCHANGED <<treeVars, sigVars, hookVars, drvVars, actVars, tracked, panicked,
                   err, callVars, tcancel, towner, tearly, tshut, mapVars, wpc, drvCtxVars>>

\* The Contexts and keys that exist: Background and every one created.
Keys == 0..ntok

\* A Context of the program, whose cancel function the program holds.
External(k) == k \in 1..ntok /\ towner[k] = NoScope /\ ~(dpc # "idle" /\ dtok = k)

\* cancel() called by the program on one of its Contexts
cancel(k) ==
    /\ ~panicked
    /\ External(k)
    /\ ~tcancel[k]
    /\ tcancel' = [tcancel EXCEPT ![k] = TRUE]
    /\ UNCHANGED <<treeVars, sigVars, hookVars, drvVars, actVars, tracked, panicked,
                   err, callVars, ntok, tparent, towner, tearly, tshut, mapVars, wpc, drvCtxVars>>

\* c.trackedCtx[ctx].cancel() called by code of the package, as the tests
\* do: the cancel function of a Context the map of s holds.
cancelStored(s, k) ==
    /\ ~panicked
    /\ dpc = "idle"
    /\ s \in Scopes
    /\ k \in Tracked(s)
    /\ ~tcancel[k]
    /\ tcancel' = [tcancel EXCEPT ![k] = TRUE]
    /\ UNCHANGED <<treeVars, sigVars, hookVars, drvVars, actVars, tracked, panicked,
                   err, callVars, ntok, tparent, towner, tearly, tshut, mapVars, wpc, drvCtxVars>>

\* The shutdown of s has reached the close of a channel.
Shut(s) == dying[s] \/ dead[s] \/ done[s]

\* The call enters c.linkWithContext(k) on s: nothing of s is written yet.
Linked(s, k) ==
    /\ dscope' = s
    /\ dkey' = k
    /\ dshut' = Shut(s)
    /\ dpc' = "link"
    /\ UNCHANGED dleft

\* WithContext(k): RootCascade(), then linkWithContext(k) on it.
WithContext(k) ==
    /\ ~panicked
    /\ dpc = "idle"
    /\ k \in Keys
    /\ nscopes < MaxScopes
    /\ nscopes' = nscopes + 1
    /\ Linked(nscopes + 1, k)
    /\ UNCHANGED <<parent, children, childrenNil, sigVars, hookVars, drvVars, actVars,
                   tracked, panicked, err, callVars, tokVars, mapVars, wpc, dtok, dnil>>

\* c.WithContext(k): c.ChildCascade(), which stores the child into
\* c.children under muChildren; the call then enters linkWithContext(k) on
\* the child, whose steps follow one by one.
ChildWithContext(p, k) ==
    /\ ~panicked
    /\ dpc = "idle"
    /\ k \in Keys
    /\ p \in Scopes
    /\ nscopes < MaxScopes
    /\ IF childrenNil[p]
         THEN /\ panicked' = TRUE
              /\ UNCHANGED <<treeVars, mapVars, wpc, drvCtxVars>>
         ELSE /\ nscopes' = nscopes + 1
              /\ parent' = [parent EXCEPT ![nscopes + 1] = p]
              /\ children' = [children EXCEPT ![p] = @ \cup {nscopes + 1}]
              /\ Linked(nscopes + 1, k)
              /\ UNCHANGED <<childrenNil, panicked, mapVars, wpc, dtok, dnil>>
    /\ UNCHANGED <<sigVars, hookVars, drvVars, actVars, tracked, err, callVars, tokVars>>

\* c.Context(k), k a Context or NoCtx for nil.  With nil the key is c.ctx,
\* read under muCtx; when c.ctx is nil too muCtx is released and the call
\* is c.linkWithContext(context.Background()), after which it takes muCtx
\* again before it returns.
Context(s, k) ==
    /\ ~panicked
    /\ dpc = "idle"
    /\ s \in Scopes
    /\ k \in Keys \cup {NoCtx}
    /\ k = NoCtx => ~CancelLocked(s)
    /\ IF k = NoCtx /\ ctx[s] = NoCtx
         THEN /\ Linked(s, Background)
              /\ dnil' = TRUE
         ELSE /\ dscope' = s
              /\ dkey' = IF k = NoCtx THEN ctx[s] ELSE k
              /\ dshut' = Shut(s)
              /\ dpc' = "alive"
              /\ UNCHANGED <<dleft, dnil>>
    /\ UNCHANGED <<treeVars, sigVars, hookVars, drvVars, actVars, tracked, panicked,
                   err, callVars, tokVars, mapVars, wpc, dtok>>

\* linkWithContext: if ctx.Done() != nil { go func() { ... }() }.  The
\* goroutine that watches ctx is started; context.Background() has no
\* Done channel and gets none.
linkGo ==
    /\ ~panicked
    /\ dpc = "link"
    /\ wpc' = [wpc EXCEPT ![dscope] = IF dkey # Background THEN "watching" ELSE @]
    /\ dpc' = "setCtx"
    /\ UNCHANGED <<treeVars, sigVars, hookVars, drvVars, actVars, tracked, panicked,
                   err, callVars, tokVars, mapVars, dscope, dkey, dtok, dshut, dleft, dnil>>

\* A linkWithContext that leaves c.ctx as it is.
linkKeepCtx ==
    /\ ~panicked
    /\ dpc = "setCtx"
    /\ ~CancelLocked(dscope)
    /\ dpc' = "withCancel"
    /\ UNCHANGED <<treeVars, sigVars, hookVars, drvVars, actVars, tracked, panicked,
                   err, callVars, tokVars, mapVars, wpc, dscope, dkey, dtok, dshut, dleft, dnil>>

\* linkWithContext: c.ctx = ctx under muCtx.
linkSetCtx ==
    /\ ~panicked
    /\ dpc = "setCtx"
    /\ ~CancelLocked(dscope)
    /\ ctx' = [ctx EXCEPT ![dscope] = dkey]
    /\ dpc' = "withCancel"
    /\ UNCHANGED <<treeVars, sigVars, hookVars, drvVars, actVars, tracked, panicked,
                   err, callVars, tokVars, trackedCtx, ctxNil, wpc, dscope, dkey, dtok, dshut, dleft, dnil>>

\* The Context call is at c.muCtx.Lock() of its closure, linkWithContext
\* having returned.
Relock ==
    /\ dpc' = "relock"
    /\ UNCHANGED <<towner, tearly, tshut, dscope, dkey, dtok, dshut, dleft, dnil>>

\* The call returns the Context k to the program.
Return(k) ==
    /\ dpc' = "idle"
    /\ dscope' = NoScope
    /\ dkey' = NoCtx
    /\ dtok' = 0
    /\ dshut' = FALSE
    /\ dleft' = {}
    /\ dnil' = FALSE
    /\ tshut' = [tshut EXCEPT ![k] = IF towner[k] = NoScope THEN dshut ELSE @]
    /\ towner' = [towner EXCEPT ![k] = IF @ = NoScope THEN dscope ELSE @]
    /\ tearly' = [tearly EXCEPT ![k] = IF towner[k] = NoScope THEN ~isDead[dscope] ELSE @]

\* Context: if c.Alive()
contextAlive ==
    /\ ~panicked
    /\ dpc = "alive"
    /\ dpc' = IF ~isDead[dscope] THEN "lookup" ELSE "withCancel"
    /\ UNCHANGED <<treeVars, sigVars, hookVars, drvVars, actVars, tracked, panicked,
                   err, callVars, tokVars, mapVars, wpc, dscope, dkey, dtok, dshut, dleft, dnil>>

\* The entries c.trackedCtx holds under the key k.
Entries(s, k) == {e \in trackedCtx[s] : e[1] = k}

\* Context: the look-up of the key under muCtx.  A live Context found is
\* returned; a cancelled one is deleted from the map.
contextLookup ==
    /\ ~panicked
    /\ dpc = "lookup"
    /\ ~CancelLocked(dscope)
    /\ IF \E e \in Entries(dscope, dkey) : ~IsDone(e[2])
         THEN /\ \E e \in Entries(dscope, dkey) : Return(e[2])
              /\ UNCHANGED trackedCtx
         ELSE /\ trackedCtx' = [trackedCtx EXCEPT ![dscope] = @ \ Entries(dscope, dkey)]
              /\ dpc' = "withCancel"
              /\ UNCHANGED <<towner, tearly, tshut, dscope, dkey, dtok, dshut, dleft, dnil>>
    /\ UNCHANGED <<treeVars, sigVars, hookVars, drvVars, actVars, tracked, panicked,
                   err, callVars, ntok, tparent, tcancel, ctx, ctxNil, wpc>>

\* tracked, cancel := context.WithCancel(ctx)
contextWithCancel ==
    /\ ~panicked
    /\ dpc = "withCancel"
    /\ ntok < MaxTokens
    /\ ntok' = ntok + 1
    /\ tparent' = [tparent EXCEPT ![ntok + 1] = dkey]
    /\ dtok' = ntok + 1
    /\ dpc' = "linkIsDead"
    /\ UNCHANGED <<treeVars, sigVars, hookVars, drvVars, actVars, tracked, panicked,
                   err, callVars, tcancel, towner, tearly, tshut, mapVars, wpc, dscope, dkey, dshut, dleft, dnil>>

\* A linkTrackedContext that goes to the store whatever IsDead() returns.
linkNoIsDead ==
    /\ ~panicked
    /\ dpc = "linkIsDead"
    /\ dpc' = "store"
    /\ UNCHANGED <<treeVars, sigVars, hookVars, drvVars, actVars, tracked, panicked,
                   err, callVars, tokVars, mapVars, wpc, dscope, dkey, dtok, dshut, dleft, dnil>>

\* linkTrackedContext: if c.IsDead() { cancel(); return }
linkIsDead ==
    /\ ~panicked
    /\ dpc = "linkIsDead"
    /\ IF isDead[dscope]
         THEN /\ tcancel' = [tcancel EXCEPT ![dtok] = TRUE]
              /\ IF dnil THEN Relock ELSE Return(dtok)
         ELSE /\ dpc' = "store"
              /\ UNCHANGED <<tcancel, towner, tearly, tshut, dscope, dkey, dtok, dshut, dleft, dnil>>
    /\ UNCHANGED <<treeVars, sigVars, hookVars, drvVars, actVars, tracked, panicked,
                   err, callVars, ntok, tparent, mapVars, wpc>>

\* c.trackedCtx[ctx] = trackedContext{child, cancel}: the entry replaces
\* the one the map holds under the key.
StoredOver(s, k, tok) == (trackedCtx[s] \ Entries(s, k)) \cup {<<k, tok>>}

\* linkTrackedContext: c.muCtx.Lock() and the store into c.trackedCtx, which
\* panics when the map is nil.  The loop over the map follows with muCtx
\* held: every entry the map holds now is still to be visited.
linkStore ==
    /\ ~panicked
    /\ dpc = "store"
    /\ ~CancelLocked(dscope)
    /\ IF ctxNil[dscope]
         THEN /\ panicked' = TRUE
              /\ UNCHANGED <<trackedCtx, drvCtxVars>>
         ELSE /\ trackedCtx' = [trackedCtx EXCEPT ![dscope] =
                     StoredOver(dscope, dkey, dtok)]
              /\ dleft' = StoredOver(dscope, dkey, dtok)
              /\ dpc' = "sweep"
              /\ UNCHANGED <<panicked, dscope, dkey, dtok, dshut, dnil>>
    /\ UNCHANGED <<treeVars, sigVars, hookVars, drvVars, actVars, tracked,
                   err, callVars, tokVars, ctx, ctxNil, wpc>>

\* An iteration that keeps the entry whatever its Context is.
linkSweepKeep ==
    /\ ~panicked
    /\ dpc = "sweep"
    /\ \E e \in dleft : dleft' = dleft \ {e}
    /\ UNCHANGED <<treeVars, sigVars, hookVars, drvVars, actVars, tracked, panicked,
                   err, callVars, tokVars, mapVars, wpc, dpc, dscope, dkey, dtok, dshut, dnil>>

\* linkTrackedContext: one iteration of for ctx, tracked := range
\* c.trackedCtx, in any order of the entries: the entry is deleted when
\* its Context is Done at this moment, and kept otherwise.
linkSweep ==
    /\ ~panicked
    /\ dpc = "sweep"
    /\ \E e \in dleft :
          /\ dleft' = dleft \ {e}
          /\ trackedCtx' = [trackedCtx EXCEPT ![dscope] =
                 IF IsDone(e[2]) THEN @ \ {e} ELSE @]
    /\ UNCHANGED <<treeVars, sigVars, hookVars, drvVars, actVars, tracked, panicked,
                   err, callVars, tokVars, ctx, ctxNil, wpc, dpc, dscope, dkey, dtok, dshut, dnil>>

\* linkTrackedContext: the loop is over, c.muCtx.Unlock(), and the call
\* returns the Context it made, but for a Context(nil) that came through
\* linkWithContext, which has muCtx to take again.
linkUnlock ==
    /\ ~panicked
    /\ dpc = "sweep"
    /\ dleft = {}
    /\ IF dnil THEN Relock ELSE Return(dtok)
    /\ UNCHANGED <<treeVars, sigVars, hookVars, drvVars, actVars, tracked, panicked,
                   err, callVars, ntok, tparent, tcancel, mapVars, wpc>>

\* Context(nil), c.ctx nil: c.muCtx.Lock() after linkWithContext, which
\* waits for a cancelTrackedContexts that holds muCtx; return cc, true; the
\* deferred c.muCtx.Unlock(); return cc.
contextRelock ==
    /\ ~panicked
    /\ dpc = "relock"
    /\ ~CancelLocked(dscope)
    /\ Return(dtok)
    /\ UNCHANGED <<treeVars, sigVars, hookVars, drvVars, actVars, tracked, panicked,
                   err, callVars, ntok, tparent, tcancel, mapVars, wpc>>

\* A case that is never ready.
CtxDoneNever(s) == FALSE

\* case <-ctx.Done(): of the goroutine.  Its ctx is the argument of
\* linkWithContext: the key of the call until c.ctx = ctx is done, and
\* what c.ctx was set to afterwards.
CtxDone(s) == IsDone(IF dpc = "setCtx" /\ dscope = s THEN dkey ELSE ctx[s])

\* The goroutine of linkWithContext: select { case <-c.Dying(): case
\* <-ctx.Done(): c.Kill() }, either case when both are ready.
watch(s) ==
    /\ ~panicked
    /\ wpc[s] = "watching"
    /\ \/ /\ dying[s]
          /\ wpc' = [wpc EXCEPT ![s] = "exit"]
       \/ /\ CtxDone(s)
          /\ wpc' = [wpc EXCEPT ![s] = "kill"]
    /\ UNCHANGED <<treeVars, sigVars, hookVars, drvVars, actVars, tracked, panicked,
                   err, callVars, tokVars, mapVars, drvCtxVars>>

\* The c.Kill() of that goroutine: the test and set of isDead.
watchKill(s) ==
    /\ ~panicked
    /\ wpc[s] = "kill"
    /\ IF ~isDead[s]
         THEN /\ Enter(s, "kill")
              /\ wpc' = [wpc EXCEPT ![s] = "driving"]
         ELSE /\ wpc' = [wpc EXCEPT ![s] = "exit"]
              /\ UNCHANGED <<isDead, mode, pc, kids0>>
    /\ UNCHANGED <<treeVars, dying, dead, done, hookVars, fan, wg, actVars, tracked,
                   panicked, err, callVars, tokVars, mapVars, drvCtxVars>>

\* The steps inside a Context or WithContext call that has begun.
InContext ==
    \/ linkGo
    \/ linkSetCtx
    \/ contextAlive
    \/ contextLookup
    \/ contextWithCancel
    \/ linkIsDead
    \/ linkStore
    \/ linkSweep
    \/ linkUnlock
    \/ contextRelock

Watcher(s) ==
    \/ watch(s)
    \/ watchKill(s)

\* ------------------------------------------------------------ specifications
\* The goroutine that won the isDead test of Kill/Cancel, up to its return.
Shutdown(s) ==
    \/ spawnChildren(s)
    \/ clearChildren(s)
    \/ closeDying(s)
    \/ gate(s)
    \/ runActions(s)
    \/ hooksEnd(s)
    \/ cancelTrackedContexts(s)
    \/ removeChild(s)
    \/ closeDone(s)
    \/ return(s)

Hooks(s) ==
    \/ hookStart(s)
    \/ hookReturn(s)

Activity(a) ==
    \/ \E s \in ScopeId : Mark(a, s)
    \/ MarkIsDead(a)
    \/ MarkGate(a)
    \/ UnMark(a)
    \/ UnMarkIsDead(a)
    \/ UnMarkGate(a)

\* Spec: a tree grown by ChildCascade from one root; every operation, from
\* any goroutine, at any time.
Next ==
    \/ \E s \in ScopeId : ChildCascade(s)
    \/ \E s \in ScopeId : DoOnKill(s, MaxHooks)
    \/ \E s \in ScopeId : Kill(s)
    \/ \E s \in ScopeId : Cancel(s)
    \/ \E s \in ScopeId : KillAll(s)
    \/ \E s \in ScopeId : CancelAll(s)
    \/ \E s \in ScopeId : Shutdown(s)
    \/ \E s \in ScopeId : childCall(s)
    \/ \E s \in ScopeId : Wait(s)
    \/ \E s \in ScopeId : Hooks(s)
    \/ \E a \in 1..MaxActs : Activity(a)

Spec == Init /\ [][Next]_vars

\* QueueSpec: one Cascade, its queue built by DoOnKill and DoFirstOnKill
\* calls made at any time, then killed or cancelled.
QueueNext ==
    \/ DoOnKill(1, MaxQueue)
    \/ DoFirstOnKill(1, MaxQueue)
    \/ Kill(1)
    \/ Cancel(1)
    \/ Shutdown(1)
    \/ Hooks(1)

QueueSpec == Init /\ [][QueueNext]_vars

\* GateSpec: one Cascade, the actions queued on it and the goroutines that
\* Mark and UnMark it while it is killed or cancelled.
GateNext1 ==
    \/ DoOnKill(1, MaxHooks)
    \/ Kill(1)
    \/ Cancel(1)
    \/ Shutdown(1)
    \/ Wait(1)
    \/ Hooks(1)
    \/ \E a \in 1..MaxMarks : Activity(a)

GateSpec == Init /\ [][GateNext1]_vars

\* The parent fields n - 1 ChildCascade calls can give the Cascades 1..n.
Trees(n) ==
    {f \in [1..n -> 0..n] : f[1] = NoScope /\ \A i \in 2..n : f[i] >= 1 /\ f[i] < i}

\* The state after the ChildCascade calls that build the tree f on the
\* Cascades 1..n and the DoOnKill calls that queue q on each of them.
Grown(n, f, q) ==
    /\ nscopes = n
    /\ parent = [s \in ScopeId |-> IF s <= n THEN f[s] ELSE NoScope]
    /\ children = [s \in ScopeId |-> {c \in 1..n : f[c] = s}]
    /\ childrenNil = [s \in ScopeId |-> FALSE]
    /\ dying = [s \in ScopeId |-> FALSE]
    /\ dead = [s \in ScopeId |-> FALSE]
    /\ done = [s \in ScopeId |-> FALSE]
    /\ isDead = [s \in ScopeId |-> FALSE]
    /\ actions = [s \in ScopeId |-> IF s <= n THEN q ELSE <<>>]
    /\ onceActions = [s \in ScopeId |-> FALSE]
    /\ tracked = [s \in ScopeId |-> 0]
    /\ pc = [s \in ScopeId |-> "idle"]
    /\ mode = [s \in ScopeId |-> "none"]
    /\ fan = [s \in ScopeId |-> "none"]
    /\ wg = [s \in ScopeId |-> 0]
    /\ ran = [s \in ScopeId |-> <<>>]
    /\ running = [s \in ScopeId |-> FALSE]
    /\ apc = [a \in ActId |-> "idle"]
    /\ ascope = [a \in ActId |-> NoScope]
    /\ early = [a \in ActId |-> FALSE]
    /\ ops = [s \in ScopeId |-> IF s <= n THEN [i \in 1..Len(q) |-> "a"] ELSE <<>>]
    /\ late = [s \in ScopeId |-> FALSE]
    /\ kids0 = [s \in ScopeId |-> {}]
    /\ panicked = FALSE
    /\ NoCalls

\* PairSpec: a root and the child ChildCascade gave it; actions are queued
\* on both and Kill, Cancel, KillAll and CancelAll are called on either, in
\* any order and at any time.
PairInit == \E f \in Trees(2) : Grown(2, f, <<>>)

PairNext ==
    \/ \E s \in ScopeId : DoOnKill(s, MaxHooks)
    \/ \E s \in ScopeId : Kill(s)
    \/ \E s \in ScopeId : Cancel(s)
    \/ \E s \in ScopeId : KillAll(s)
    \/ \E s \in ScopeId : CancelAll(s)
    \/ \E s \in ScopeId : Shutdown(s)
    \/ \E s \in ScopeId : childCall(s)
    \/ \E s \in ScopeId : Hooks(s)

PairSpec == PairInit /\ [][PairNext]_vars

\* FairSpec: a tree of Cascades built by ChildCascade calls, an action
\* queued on each; then Kill or Cancel of the root, called on it or reached
\* by KillAll/CancelAll from any Cascade, and goroutines that Mark a
\* Cascade and UnMark it once they see it dying (or earlier).
\* The marking goroutines are numbered in the order of their Mark calls.
InOrder(a) == \A b \in 1..(a - 1) : apc[b] # "idle"

\* LateSpec: one Cascade, killed or cancelled, and goroutines that call
\* Mark and then UnMark on it, or UnMark alone, at any time; the driver and
\* the actions run whenever they can.
LateNext ==
    \/ DoOnKill(1, MaxHooks)
    \/ Kill(1)
    \/ Cancel(1)
    \/ Shutdown(1)
    \/ Wait(1)
    \/ Hooks(1)
    \/ \E a \in 1..MaxMarks : InOrder(a) /\ Activity(a)
    \/ \E a \in 1..MaxMarks : InOrder(a) /\ StrayUnMark(a, 1)

LateFairness == WF_vars(Shutdown(1) \/ Wait(1) \/ Hooks(1))

LateSpec == Init /\ [][LateNext]_vars /\ LateFairness

LiveInit == \E n \in 1..MaxLive : \E f \in Trees(n) : Grown(n, f, <<1>>)

\* A tree of MaxTree Cascades built by ChildCascade calls: a chain, with an
\* inner node between the root and a leaf, or a root with siblings under
\* it, or both; q is queued on each Cascade.
TreeInit(q) == \E f \in Trees(MaxTree) : Grown(MaxTree, f, q)

FairNext ==
    \/ \E s \in ScopeId : KillAll(s)
    \/ \E s \in ScopeId : CancelAll(s)
    \/ \E s \in ScopeId : Shutdown(s)
    \/ \E s \in ScopeId : childCall(s)
    \/ \E s \in ScopeId : Wait(s)
    \/ \E s \in ScopeId : Hooks(s)
    \/ \E a \in 1..MaxActs : InOrder(a) /\ Activity(a)

\* <-c.Dying() (or Hold) has returned in a marked goroutine, which unmarks.
HoldUnMark(a) ==
    /\ apc[a] = "marked"
    /\ dying[ascope[a]]
    /\ UnMark(a)

\* The steps inside a Mark or UnMark call that has begun.
InCall(a) ==
    \/ MarkIsDead(a)
    \/ MarkGate(a)
    \/ UnMarkIsDead(a)
    \/ UnMarkGate(a)

\* Every goroutine that can run does: the drivers, the goroutines spawned
\* for the children, the actions (each returns), the calls in progress, and
\* the marked goroutines once they see dying.
Fairness ==
    /\ \A s \in ScopeId : WF_vars(Shutdown(s) \/ Wait(s) \/ Hooks(s))
    /\ \A s \in ScopeId : WF_vars(childCall(s))
    /\ \A a \in 1..MaxActs : WF_vars(InCall(a))
    /\ \A a \in 1..MaxActs : WF_vars(HoldUnMark(a))

FairSpec == LiveInit /\ [][FairNext]_vars /\ Fairness

\* JoinSpec: a tree of Cascades built by ChildCascade calls, an action
\* queued on each, and goroutines that each call Kill or Cancel on a
\* Cascade of the tree, at any time.
JoinNext ==
    \/ \E t \in CallerId : Joiner(t)
    \/ \E s \in ScopeId : Shutdown(s)
    \/ \E s \in ScopeId : childCall(s)
    \/ \E s \in ScopeId : Hooks(s)

JoinSpec == LiveInit /\ [][JoinNext]_vars

\* Every goroutine that can run does, and every action returns.
SweepFairness ==
    /\ WF_vars(callKill(1) \/ callReturn(1))
    /\ WF_vars(callKill(2) \/ callReturn(2))
    /\ \A s \in ScopeId : WF_vars(Shutdown(s) \/ Hooks(s))
    /\ \A s \in ScopeId : WF_vars(childCall(s))

\* A goroutine that calls KillAll or CancelAll on the root.
RootSweeper(t) ==
    \/ GoKillAll(t, 1)
    \/ GoCancelAll(t, 1)
    \/ callKill(t)
    \/ callReturn(t)

\* DeepSweepSpec: a tree of MaxTree Cascades, an action queued on each; a
\* goroutine that calls KillAll or CancelAll on any Cascade of the tree
\* and one that calls either on the root, at any time.
DeepSweepNext ==
    \/ Sweeper(1)
    \/ RootSweeper(2)
    \/ \E s \in ScopeId : Shutdown(s)
    \/ \E s \in ScopeId : childCall(s)
    \/ \E s \in ScopeId : Hooks(s)

DeepSweepSpec == TreeInit(<<1>>) /\ [][DeepSweepNext]_vars /\ SweepFairness

\* LocalSpec: a tree of MaxTree Cascades, an action queued on each; a
\* goroutine that calls Kill or Cancel on a Cascade of the tree and a
\* goroutine that calls KillWithError or CancelWithError on one, the
\* second call made when the first has returned, in either order; and a
\* goroutine that marks a Cascade and unmarks it, at any time.
LocalNext ==
    \/ cpc[2] \in {"idle", "returned"} /\ Joiner(1)
    \/ cpc[1] \in {"idle", "returned"} /\ Blamer(2)
    \/ \E s \in ScopeId : Shutdown(s)
    \/ \E s \in ScopeId : childCall(s)
    \/ \E s \in ScopeId : Wait(s)
    \/ \E s \in ScopeId : Hooks(s)
    \/ Activity(1)

LocalSpec == TreeInit(<<1>>) /\ [][LocalNext]_vars

\* ErrSpec: a root and its child, and goroutines that each call one of the
\* WithError functions on a Cascade of the tree, at any time.
ErrNext ==
    \/ \E t \in CallerId : Failer(t)
    \/ \E s \in ScopeId : Shutdown(s)
    \/ \E s \in ScopeId : childCall(s)

ErrSpec == PairInit /\ [][ErrNext]_vars

\* DeepErrSpec: the same calls, by two goroutines, on a tree of MaxTree
\* Cascades.
DeepErrNext ==
    \/ Failer(1)
    \/ Failer(2)
    \/ \E s \in ScopeId : Shutdown(s)
    \/ \E s \in ScopeId : childCall(s)

DeepErrSpec == TreeInit(<<>>) /\ [][DeepErrNext]_vars

\* TokenSpec: one Cascade made by RootCascade, a goroutine that calls
\* Context on it with any key, one call after the other, the program's
\* own Contexts and their cancellation, and Kill and Cancel at any time.
TokenNext ==
    \/ WithCancel
    \/ \E k \in TokenId : cancel(k)
    \/ \E k \in Keys \cup {NoCtx} : Context(1, k)
    \/ InContext
    \/ Kill(1)
    \/ Cancel(1)
    \/ Shutdown(1)
    \/ cancelNext(1)

TokenSpec == Init /\ [][TokenNext]_vars

\* EvictSpec: one Cascade that stays alive, a goroutine that calls Context
\* on it with any key, the program's own Contexts and their cancellation,
\* and code of the package that cancels the Contexts the map holds.
EvictNext ==
    \/ WithCancel
    \/ \E k \in TokenId : cancel(k)
    \/ \E k \in Keys \cup {NoCtx} : Context(1, k)
    \/ InContext
    \/ \E k \in TokenId : cancelStored(1, k)

EvictSpec == Init /\ [][EvictNext]_vars

\* BindSpec: a Cascade made by RootCascade, the Cascades WithContext and
\* c.WithContext make with the Contexts of the program, and a goroutine that calls
\* Context on them with any key, one call after the other.
BindNext ==
    \/ WithCancel
    \/ \E k \in Keys : WithContext(k)
    \/ \E p \in ScopeId : \E k \in Keys : ChildWithContext(p, k)
    \/ \E s \in ScopeId : \E k \in Keys \cup {NoCtx} : Context(s, k)
    \/ InContext

BindSpec == Init /\ [][BindNext]_vars

\* LoopSpec: one Cascade, goroutines that run WrapInLoop or
\* WrapInLoopWithBool on it, f returning true or false as it likes, and
\* Kill or Cancel at any time.
LoopNext ==
    \/ \E a \in 1..MaxMarks : InOrder(a) /\ Looper(a, 1)
    \/ Kill(1)
    \/ Cancel(1)
    \/ Shutdown(1)
    \/ Wait(1)

LoopSpec == Init /\ [][LoopNext]_vars

\* GoSpec: a root Cascade, Go calls on it and on the Cascades they return,
\* the goroutines they start, and Kill and Cancel of any Cascade at any
\* time.
GoNext ==
    \/ \E p \in ScopeId : \E a \in 1..MaxActs : Go(p, a)
    \/ \E a \in 1..MaxActs : Wrapped(a)
    \/ \E s \in ScopeId : Kill(s)
    \/ \E s \in ScopeId : Cancel(s)
    \/ \E s \in ScopeId : Shutdown(s)
    \/ \E s \in ScopeId : childCall(s)
    \/ \E s \in ScopeId : Wait(s)

GoSpec == Init /\ [][GoNext]_vars

\* The parent fields of n Cascades of which each is a root or a child of
\* an earlier one.
Forests(n) == {f \in [1..n -> 0..n] : \A i \in 1..n : f[i] < i}

\* The longest chain the Contexts and the Cascades of the model allow.
MaxChain == IF MaxTokens - 1 < MaxScopes THEN MaxTokens - 1 ELSE MaxScopes

\* The state after ctx, cancel := context.WithCancel(context.Background())
\* and n calls that each made a Cascade and returned a Context, the first
\* with ctx and each other with the Context the call before it returned,
\* a DoOnKill on each Cascade and a Mark of the first by a goroutine.  The
\* Context 1 is ctx and i + 1 the one call i returned.  With w the calls
\* are WithContext(..), or c.WithContext(..) on an earlier Cascade c as f
\* tells; without, they are RootCascade() or c.ChildCascade() followed by
\* Context(..) on the new Cascade, which starts no goroutine and leaves
\* its ctx nil.
Chain(n, f, w) ==
    /\ nscopes = n
    /\ parent = [s \in ScopeId |-> IF s <= n THEN f[s] ELSE NoScope]
    /\ children = [s \in ScopeId |-> {c \in 1..n : f[c] = s}]
    /\ childrenNil = [s \in ScopeId |-> FALSE]
    /\ dying = [s \in ScopeId |-> FALSE]
    /\ dead = [s \in ScopeId |-> FALSE]
    /\ done = [s \in ScopeId |-> FALSE]
    /\ isDead = [s \in ScopeId |-> FALSE]
    /\ actions = [s \in ScopeId |-> IF s <= n THEN <<1>> ELSE <<>>]
    /\ onceActions = [s \in ScopeId |-> FALSE]
    /\ tracked = [s \in ScopeId |-> IF s = 1 THEN 1 ELSE 0]
    /\ pc = [s \in ScopeId |-> "idle"]
    /\ mode = [s \in ScopeId |-> "none"]
    /\ fan = [s \in ScopeId |-> "none"]
    /\ wg = [s \in ScopeId |-> 0]
    /\ ran = [s \in ScopeId |-> <<>>]
    /\ running = [s \in ScopeId |-> FALSE]
    /\ apc = [a \in ActId |-> IF a = 1 THEN "marked" ELSE "idle"]
    /\ ascope = [a \in ActId |-> IF a = 1 THEN 1 ELSE NoScope]
    /\ early = [a \in ActId |-> a = 1]
    /\ ops = [s \in ScopeId |-> IF s <= n THEN <<"a">> ELSE <<>>]
    /\ late = [s \in ScopeId |-> FALSE]
    /\ kids0 = [s \in ScopeId |-> {}]
    /\ panicked = FALSE
    /\ err = [s \in ScopeId |-> NoError]
    /\ cpc = [t \in CallerId |-> "idle"]
    /\ cop = [t \in CallerId |-> "none"]
    /\ cfrom = [t \in CallerId |-> NoScope]
    /\ cscope = [t \in CallerId |-> NoScope]
    /\ cres = [t \in CallerId |-> "none"]
    /\ cinner = [t \in CallerId |-> "none"]
    /\ cwon = [t \in CallerId |-> FALSE]
    /\ cdone = [t \in CallerId |-> FALSE]
    /\ ntok = n + 1
    /\ tparent = [k \in TokenId |-> IF k <= n + 1 THEN k - 1 ELSE Background]
    /\ tcancel = [k \in TokenId |-> FALSE]
    /\ towner = [k \in TokenId |-> IF k >= 2 /\ k <= n + 1 THEN k - 1 ELSE NoScope]
    /\ tearly = [k \in TokenId |-> k >= 2 /\ k <= n + 1]
    /\ tshut = [k \in TokenId |-> FALSE]
    /\ ctx = [s \in ScopeId |-> IF s <= n /\ w THEN s ELSE NoCtx]
    /\ trackedCtx = [s \in ScopeId |-> IF s <= n THEN {<<s, s + 1>>} ELSE {}]
    /\ ctxNil = [s \in ScopeId |-> FALSE]
    /\ wpc = [s \in ScopeId |-> IF s <= n /\ w THEN "watching" ELSE "none"]
    /\ dpc = "idle"
    /\ dscope = NoScope
    /\ dkey = NoCtx
    /\ dtok = 0
    /\ dshut = FALSE
    /\ dleft = {}
    /\ dnil = FALSE

\* The chain the WithContext calls make.
Chained(n, f) == Chain(n, f, TRUE)

\* BridgeSpec: such a chain of Cascades, the goroutine that marked the
\* first and its UnMark, and the program's cancel() of its Context, at any
\* time.
BridgeInit == \E n \in 1..MaxChain : \E f \in Forests(n) : Chained(n, f)

BridgeNext ==
    \/ cancel(1)
    \/ \E s \in ScopeId : Watcher(s)
    \/ \E s \in ScopeId : Shutdown(s)
    \/ \E s \in ScopeId : cancelNext(s)
    \/ \E s \in ScopeId : childCall(s)
    \/ \E s \in ScopeId : Wait(s)
    \/ \E s \in ScopeId : Hooks(s)
    \/ UnMark(1)
    \/ UnMarkIsDead(1)
    \/ UnMarkGate(1)

\* Every goroutine that can run does: the goroutines linkWithContext
\* started, the drivers, the goroutines spawned for the children, the
\* actions, the UnMark in progress and the marked goroutine once it sees
\* dying.
BridgeFairness ==
    /\ \A s \in ScopeId : WF_vars(Watcher(s))
    /\ \A s \in ScopeId : WF_vars(Shutdown(s) \/ cancelNext(s) \/ Wait(s) \/ Hooks(s))
    /\ \A s \in ScopeId : WF_vars(childCall(s))
    /\ WF_vars(InCall(1))
    /\ WF_vars(HoldUnMark(1))

BridgeSpec == BridgeInit /\ [][BridgeNext]_vars /\ BridgeFairness

\* LinkSpec: two Cascades so chained, by WithContext or by Context calls,
\* the second a root or a child of the first; the program cancels none of
\* its Contexts and calls Kill and Cancel on either Cascade, at any time.
LinkInit == \E f \in Forests(2) : \E w \in BOOLEAN : Chain(2, f, w)

LinkNext ==
    \/ \E s \in ScopeId : Kill(s)
    \/ \E s \in ScopeId : Cancel(s)
    \/ \E s \in ScopeId : Watcher(s)
    \/ \E s \in ScopeId : Shutdown(s)
    \/ \E s \in ScopeId : cancelNext(s)
    \/ \E s \in ScopeId : childCall(s)
    \/ \E s \in ScopeId : Wait(s)
    \/ \E s \in ScopeId : Hooks(s)
    \/ UnMark(1)
    \/ UnMarkIsDead(1)
    \/ UnMarkGate(1)

LinkSpec == LinkInit /\ [][LinkNext]_vars

\* IssueSpec: one Cascade, made by WithContext(ctx) or by RootCascade and
\* a Context(ctx) call, with an action queued and a goroutine that holds a
\* mark; a goroutine calls Context on it with any key (nil,
\* context.Background(), ctx, a Context the Cascade returned), one call
\* after the other, so that its map holds several Contexts; the program
\* cancels none of its Contexts and calls Kill and Cancel, at any time.
IssueInit == \E w \in BOOLEAN : Chain(1, <<NoScope>>, w)

IssueNext ==
    \/ \E k \in Keys \cup {NoCtx} : Context(1, k)
    \/ InContext
    \/ Kill(1)
    \/ Cancel(1)
    \/ watch(1)
    \/ Shutdown(1)
    \/ cancelNext(1)
    \/ Wait(1)
    \/ Hooks(1)
    \/ UnMark(1)
    \/ UnMarkIsDead(1)
    \/ UnMarkGate(1)

IssueSpec == IssueInit /\ [][IssueNext]_vars

\* ------------------------------------------------------------------ claims
\* C1: children before parent.  For every Cascade p whose done is closed,
\* the done of every child that was in p.children when p's shutdown began
\* (isDead set) is closed too, whoever called Kill or Cancel on the child.
C1_ChildrenBeforeParent ==
    \A p \in Scopes : done[p] => \A c \in kids0[p] : done[c]

\* The actions of c that were queued before c's shutdown began have all
\* returned (c is past runActions), or c was cancelled and runs none.
HooksOver(c) ==
    \/ mode[c] = "cancel"
    \/ late[c]
    \/ actions[c] = <<>>
    \/ pc[c] \in {"cancelCtx", "cancelling", "remove", "done", "return", "finished"}

\* C2: child hooks before parent hooks.  Once a killed Cascade p has
\* started one of its actions, every action of each child p had when its
\* shutdown began has finished executing.
C2_ChildHooksFirst ==
    \A p \in Scopes :
        (mode[p] = "kill" /\ ran[p] # <<>>) => \A c \in kids0[p] : HooksOver(c)

\* The calls of kind k in the history o, as the positions they hold in o
\* (the identifier of the action each queued), oldest first.
RECURSIVE Picked(_, _, _)
Picked(o, k, i) ==
    IF i > Len(o) THEN <<>>
    ELSE (IF o[i] = k THEN <<i>> ELSE <<>>) \o Picked(o, k, i + 1)

Reverse(q) == [i \in 1..Len(q) |-> q[Len(q) + 1 - i]]

\* The order the specification gives a queue built by the calls o: every
\* prepended action, newest first, then every appended action, oldest first.
Expected(o) == Reverse(Picked(o, "p", 1)) \o Picked(o, "a", 1)

IsPrefix(q, r) == Len(q) <= Len(r) /\ \A i \in 1..Len(q) : q[i] = r[i]

\* C3: hook ordering.  When every DoOnKill/DoFirstOnKill call on a Cascade
\* came before its shutdown, a Kill calls the actions one at a time in the
\* order that takes each DoFirstOnKill as an insertion at the head and each
\* DoOnKill as one at the tail: what has been called so far is a prefix of
\* that order, and all of it once done is closed.
C3_HookOrder ==
    \A s \in Scopes :
        (mode[s] = "kill" /\ ~late[s]) =>
            /\ IsPrefix(ran[s], Expected(ops[s]))
            /\ done[s] => ran[s] = Expected(ops[s])

\* Scenario A of the specification: append, append, prepend, Kill.
C3_Witness ==
    /\ done[1]
    /\ mode[1] = "kill"
    /\ ops[1] = <<"a", "a", "p">>
    /\ ran[1] = <<3, 1, 2>>

\* The activity a holds a mark on s: its Mark has incremented s.tracked and
\* its UnMark has not yet decremented it.
Outstanding(a, s) ==
    /\ ascope[a] = s
    /\ apc[a] \in {"markIsDead", "markGate", "marked"}

NoEarlyMark(s) == \A a \in ActId : ~(Outstanding(a, s) /\ early[a])

\* C4: tracked gate.  With every UnMark matched by an earlier Mark, dead
\* is never closed on a Cascade while a mark placed before its shutdown
\* began is outstanding, and tracked is 0 in the step that closes dead.
C4_TrackedGate ==
    [][\A s \in Scopes :
          dead'[s] => /\ NoEarlyMark(s)'
                      /\ (~dead[s] => tracked'[s] = 0)]_vars

\* The driver found tracked non-zero and waits; the UnMark of a goroutine
\* that marked before the shutdown has since closed dead.
C4_Witness ==
    /\ dead[1]
    /\ pc[1] = "wait"
    /\ \E a \in ActId : ascope[a] = 1 /\ early[a] /\ apc[a] = "exited"

\* C8: dying before dead.  In every state, a Cascade whose dead is closed
\* has its dying closed.
C8_DyingBeforeDead ==
    \A s \in Scopes : dead[s] => dying[s]

AllDone == \A s \in Scopes : dying[s] /\ dead[s] /\ done[s]

\* C5: shutdown terminates.  When every marked goroutine unmarks once it
\* sees dying and every action returns, a Kill or Cancel on the root leads
\* to dying, dead and done closed on every Cascade of the tree and to the
\* return of the call that drives the root.
C5_ShutdownTerminates ==
    isDead[1] ~> (AllDone /\ pc[1] = "finished")

\* A tree of MaxLive Cascades is done, the root's driver has returned, and
\* a goroutine that marked a Cascade before its shutdown has unmarked it.
C5_Witness ==
    /\ nscopes = MaxLive
    /\ AllDone
    /\ pc[1] = "finished"
    /\ \E a \in ActId : early[a] /\ apc[a] = "exited"

\* C6: hooks only on kill.  A Cascade whose shutdown was won by Cancel
\* (called on it, or by the goroutine of a cancelling parent, or through
\* CancelAll) never calls any of its actions, whatever is called afterwards.
C6_NoHooksOnCancel ==
    \A s \in Scopes : mode[s] = "cancel" => (ran[s] = <<>> /\ ~running[s])

\* A child holding a queued action was cancelled by the goroutine its
\* cancelling parent spawned, and both are done.
C6_Witness ==
    /\ nscopes = 2
    /\ mode[1] = "cancel" /\ done[1] /\ pc[1] = "finished"
    /\ mode[2] = "cancel" /\ done[2] /\ fan[2] = "finished"
    /\ actions[2] = <<1>> /\ ~late[2]

C9_DeadAndHooksBeforeDone ==
    \A s \in Scopes :
        done[s] => /\ dead[s]
                   /\ ~running[s]
                   /\ (mode[s] = "kill" /\ ~late[s]) => ran[s] = actions[s]

\* A killed Cascade is done after its driver waited for the UnMark of a
\* goroutine and then called its action.
C9_Witness ==
    \E s \in Scopes :
        /\ done[s] /\ mode[s] = "kill" /\ ran[s] = <<1>> /\ ~late[s]
        /\ \E a \in ActId : ascope[a] = s /\ early[a] /\ apc[a] = "exited"

\* C10: monotonicity.  No step of any operation re-opens dying, dead or
\* done or resets isDead.
C10_Monotonic ==
    [][\A s \in ScopeId :
          /\ dying[s] => dying'[s]
          /\ dead[s] => dead'[s]
          /\ done[s] => done'[s]
          /\ isDead[s] => isDead'[s]]_vars

\* A Cascade is done, and after its shutdown began an action was queued on
\* it and a goroutine marked and unmarked it.
C10_Witness ==
    /\ isDead[1] /\ dying[1] /\ dead[1] /\ done[1]
    /\ late[1]
    /\ \E a \in ActId : ascope[a] = 1 /\ ~early[a] /\ apc[a] = "exited"

\* C11: dying if and only if isDead.  In every state, for every Cascade,
\* the dying channel is closed exactly when IsDead() returns true.
C11_DyingIffIsDead ==
    \A s \in Scopes : dying[s] <=> isDead[s]

\* C12: idempotent shutdown entry.  A Kill or Cancel call that reaches a
\* Cascade whose isDead is already set returns in that step, without
\* waiting, and leaves the channels, isDead, the actions and what has run
\* of them, tracked, err, the children and the Contexts of every Cascade
\* unchanged.
C12_NoopOnDead ==
    [][\A t \in CallerId :
          (cpc[t] \in {"kill", "cancel"} /\ isDead[cscope[t]] /\ cpc'[t] # cpc[t]) =>
              /\ cpc'[t] = "returned"
              /\ UNCHANGED <<sigVars, actions, onceActions, ran, running, tracked, err,
                             children, childrenNil, pc, mode, mapVars, tcancel>>]_vars

\* A Kill or Cancel call has returned from a Cascade another call drives,
\* whose shutdown was in progress.
C12_Witness ==
    \E t \in CallerId :
        /\ cpc[t] = "returned" /\ ~cwon[t] /\ ~cdone[t]
        /\ pc[cscope[t]] \notin {"idle", "finished"}

\* C13: Kill and Cancel as a join.  Every Kill or Cancel call on a
\* Cascade, whether or not it drives the shutdown, returns only once the
\* done channel of that Cascade is closed.
C13_ReturnAfterDone ==
    \A t \in CallerId : cpc[t] = "returned" => cdone[t]

\* The calls that found isDead false on the Cascade s.
Winners(s) == {t \in CallerId : cwon[t] /\ cscope[t] = s}

\* C14: single driver.  Of the Kill and Cancel calls goroutines make on a
\* Cascade (one no parent's shutdown has reached), exactly one finds
\* isDead false and drives the shutdown, and once the Cascade is done its
\* queued action has been called if and only if that call was a Kill.
C14_SingleDriver ==
    \A s \in Scopes :
        fan[s] = "none" =>
            /\ Cardinality(Winners(s)) = (IF isDead[s] THEN 1 ELSE 0)
            /\ done[s] => (ran[s] = actions[s] <=> \E t \in Winners(s) : cop[t] = "Kill")
            /\ done[s] => (ran[s] = <<>> <=> \E t \in Winners(s) : cop[t] = "Cancel")

\* Two goroutines called on the root: the Cancel won, the Kill found
\* isDead set, and the root is done with its action not called.
C14_Witness ==
    /\ done[1] /\ ran[1] = <<>> /\ actions[1] = <<1>>
    /\ \E t, u \in CallerId :
          /\ cscope[t] = 1 /\ cop[t] = "Cancel" /\ cwon[t]
          /\ cscope[u] = 1 /\ cop[u] = "Kill" /\ cpc[u] = "returned" /\ ~cwon[u]

\* The WithError calls that have been through the muErr block of s, and
\* those of them that were not turned away.
Tried(s) == {t \in CallerId : cpc[t] # "idle" /\ cscope[t] = s}

Stored(s) == {t \in Tried(s) : cinner[t] # "ErrorAlreadySet"}

\* C15: error write-once.  Of the WithError calls made on one Cascade,
\* one after the other or at once, exactly one stores its error; every
\* other KillWithError/CancelWithError call returns the already-set
\* failure; and Error() is the error of the call that stored, whatever
\* call comes later.
C15_ErrorWriteOnce ==
    \A s \in Scopes :
        Tried(s) # {} =>
            /\ Cardinality(Stored(s)) = 1
            /\ \A t \in Stored(s) : err[s] = NewError(t)
            /\ \A t \in Tried(s) \ Stored(s) :
                  cop[t] \notin AllWithError => cres[t] = "ErrorAlreadySet"

\* A KillWithError and a CancelWithError were called on the same Cascade;
\* one stored its error and shut the Cascade down, the other was refused.
C15_Witness ==
    \E s \in Scopes : \E t, u \in CallerId :
        /\ cscope[t] = s /\ cop[t] = "KillWithError" /\ cres[t] = "nil"
        /\ cscope[u] = s /\ cop[u] = "CancelWithError" /\ cres[u] = "ErrorAlreadySet"
        /\ err[s] = NewError(t) /\ done[s]

\* C16: a WithError call that finds an error set changes nothing.  The
\* step in which KillWithError/CancelWithError meets a non-nil err returns
\* the failure and leaves err, isDead, the channels and every driver where
\* they were; the refused call never drives a shutdown.
C16_RefusedChangesNothing ==
    [][\A t \in CallerId :
          (cinner'[t] = "ErrorAlreadySet" /\ cinner[t] # "ErrorAlreadySet") =>
              /\ cpc'[t] = "returned"
              /\ ~cwon'[t]
              /\ UNCHANGED <<err, sigVars, drvVars, treeVars, tracked>>]_vars

\* A call was refused on a Cascade that is still alive: the call that
\* stored the error has yet to reach its Kill, which will drive the shutdown.
C16_Witness ==
    \E t, u \in CallerId :
        /\ cpc[t] = "returned" /\ cres[t] = "ErrorAlreadySet"
        /\ cscope[u] = cscope[t] /\ cpc[u] = "kill"
        /\ ~isDead[cscope[t]] /\ err[cscope[t]] = NewError(u)

\* C17: the tree-wide WithError calls report the failure.  A
\* KillAllWithError or CancelAllWithError call that finds an error set on
\* the root returns the already-set failure to its caller and drives no
\* shutdown.
C17_AllReportsFailure ==
    \A t \in CallerId :
        (cop[t] \in AllWithError /\ cinner[t] = "ErrorAlreadySet") =>
            /\ cres[t] = "ErrorAlreadySet"
            /\ ~cwon[t]

\* C18: the error attaches only at the entry point.  A Cascade holds an
\* error only if a goroutine passed that error to KillWithError or
\* CancelWithError called on it, or to KillAllWithError or
\* CancelAllWithError called on a Cascade of which it is the root; no
\* shutdown copies an error to another Cascade.
C18_ErrorOnlyAtEntry ==
    \A s \in Scopes :
        err[s] # NoError =>
            \E t \in CallerId :
                /\ err[s] = NewError(t)
                /\ cpc[t] # "idle"
                /\ s = (IF cop[t] \in AllWithError THEN RootOf(cfrom[t]) ELSE cfrom[t])
                /\ \A r \in Scopes \ {s} : err[r] # NewError(t)

\* KillAllWithError was called on a leaf two levels under the root: the
\* tree is done, the root holds the error, and the leaf and the Cascade
\* between them hold none.
C18_Witness ==
    /\ nscopes >= 3 /\ parent[3] = 2 /\ parent[2] = 1
    /\ \E t \in CallerId :
          /\ cop[t] = "KillAllWithError" /\ cfrom[t] = 3 /\ cpc[t] = "returned"
          /\ err[1] = NewError(t) /\ err[2] = NoError /\ err[3] = NoError
    /\ \A s \in Scopes : done[s]

\* C19: token cancellation.  Every Context that Context or WithContext
\* returned for a Cascade before its shutdown began is cancelled once the
\* done channel of that Cascade is closed, whatever keys the calls used.
C19_TokensCancelledByDone ==
    \A k \in 1..ntok :
        (towner[k] # NoScope /\ tearly[k] /\ done[towner[k]]) => IsDone(k)

\* s went through a Kill: it is done, the actions queued before its
\* shutdown have been called and every Context it returned is cancelled.
KilledAndDone(s) ==
    /\ done[s]
    /\ mode[s] = "kill"
    /\ ~late[s] => ran[s] = actions[s]
    /\ \A k \in 1..ntok : towner[k] = s => IsDone(k)

\* C20: external cancel drives Kill.  Once the program's Context is
\* cancelled, the Cascade made with it by WithContext (as a root or as a
\* child) eventually is done through a Kill that called its actions, and
\* the Context WithContext returned is cancelled, when the marked
\* goroutines unmark; and so is every Cascade down the chain, each made
\* with the Context the WithContext before it returned.
C20_ExternalCancelKills ==
    tcancel[1] ~> \A s \in Scopes : KilledAndDone(s)

\* A chain: the second Cascade was made with the Context the first
\* WithContext returned; both are done by the Kill of their own goroutine
\* and have called their action, and the goroutine that had marked the
\* first has unmarked it.
C20_Witness ==
    /\ nscopes >= 2
    /\ ctx[2] \in TokenId /\ towner[ctx[2]] = 1
    /\ KilledAndDone(1) /\ wpc[1] = "driving" /\ ran[1] = <<1>>
    /\ KilledAndDone(2) /\ wpc[2] = "driving" /\ ran[2] = <<1>>
    /\ \E a \in ActId : early[a] /\ apc[a] = "exited"

\* The Contexts the Cascade s was linked with or derived others from:
\* c.ctx and the keys of c.trackedCtx.
Parents(s) == ({ctx[s]} \cup {e[1] : e \in trackedCtx[s]}) \cap TokenId

\* A step of the Kill or Cancel that shuts s down: the driver moves on, or
\* stays in the loop of cancelTrackedContexts and calls a cancel function.
DriverStep(s) ==
    \/ pc'[s] # pc[s]
    \/ pc[s] = "cancelling" /\ \E k \in Tracked(s) : tcancel'[k] # tcancel[k]

\* The Context k was made by a Context or WithContext call on s, which has
\* returned it or has yet to return.
Made(s, k) == towner[k] = s \/ (dpc # "idle" /\ dscope = s /\ dtok = k)

\* C21, as stated: no cancellation upward.  No step of the Kill or Cancel
\* that shuts a Cascade down calls the cancel function of the Context the
\* Cascade was made with by WithContext or of a Context a Context call on
\* it took as parent.
C21_NoUpwardCancel ==
    [][\A s \in Scopes :
          DriverStep(s) => \A k \in Parents(s) : tcancel'[k] = tcancel[k]]_vars

\* C21, amended: no cancellation upward, but for the Cascade's own
\* Contexts.  A step of the Kill or Cancel that shuts a Cascade down calls
\* the cancel function of one Context, which the map of the Cascade holds
\* as a value, and of no other: not of the Context the Cascade was made
\* with, not of a parent that is a Context of the program or of another
\* Cascade, and of a parent only when that parent is itself a Context the
\* Cascade returned and still holds; and no step of any shutdown cancels
\* a Context of the program.
C21_NoUpwardCancelButOwn ==
    [][/\ \A s \in Scopes :
             DriverStep(s) =>
                 /\ \A k \in Parents(s) :
                       k \notin Tracked(s) => tcancel'[k] = tcancel[k]
                 /\ \A k \in TokenId :
                       tcancel'[k] # tcancel[k] => (k \in Tracked(s) /\ Made(s, k))
       /\ \A k \in 1..ntok : External(k) => tcancel'[k] = tcancel[k]]_vars

\* The Cascade, made by WithContext with the program's Context 1, returned
\* Context 2 and then, for Context 2 as parent, Context 3; it was killed
\* and is done: 2 and 3 are cancelled, 2 being a parent the Cascade had
\* returned itself, and the program's Context is not.
C21_Witness ==
    /\ ctx[1] = 1 /\ towner[1] = NoScope
    /\ towner[2] = 1 /\ tparent[2] = 1
    /\ towner[3] = 1 /\ tparent[3] = 2 /\ tearly[3]
    /\ done[1] /\ mode[1] = "kill"
    /\ tcancel[2] /\ tcancel[3]
    /\ ~IsDone(1)

\* C22, as stated: derived Contexts are cancelled on dying.  While the
\* Kill or Cancel of a Cascade waits for tracked to reach zero or runs the
\* actions, dying being closed, every Context the Cascade returned before
\* its shutdown began is already cancelled.
C22_CancelledOnDying ==
    \A k \in 1..ntok :
        (/\ towner[k] # NoScope
         /\ tearly[k]
         /\ dying[towner[k]]
         /\ pc[towner[k]] \in {"wait", "runActions", "hooks"}) => IsDone(k)

\* The Context k is one s returned while alive, for a key under which no
\* call on s made another.
Sole(s, k) ==
    /\ towner[k] = s
    /\ tearly[k]
    /\ \A j \in 1..ntok : (j # k /\ Made(s, j)) => tparent[j] # tparent[k]

\* C22, amended: derived Contexts are cancelled at the end of the
\* shutdown.  The cancel function of a Context a Cascade returned is
\* called by the Cascade only in cancelTrackedContexts, which closeAndClean
\* calls after dead is closed and, for a Kill, after every queued action
\* has returned, done still open; and when that function has returned,
\* so before done, every Context the Cascade returned while alive is
\* cancelled, one by one and in any order.
C22_CancelledAfterDeadAndHooks ==
    /\ [](\A s \in Scopes : \A k \in 1..ntok :
             (Sole(s, k) /\ pc[s] \in {"remove", "done", "return", "finished"}) =>
                 IsDone(k))
    /\ [][\A s \in Scopes : \A k \in 1..ntok :
             (towner[k] = s /\ ~tcancel[k] /\ tcancel'[k]) =>
                 /\ pc[s] \in {"cancelCtx", "cancelling"}
                 /\ dying[s] /\ dead[s] /\ ~done[s] /\ ~done'[s]
                 /\ ~running[s]
                 /\ (mode[s] = "kill" /\ ~late[s]) => ran[s] = actions[s]]_vars

\* The Kill of the Cascade waited for the UnMark of the goroutine, called
\* the action and has cancelled one of the two Contexts the Cascade had
\* returned and its map holds; the other is not cancelled yet, and done
\* is open.
C22_Witness ==
    /\ pc[1] = "cancelling" /\ mode[1] = "kill"
    /\ towner[2] = 1 /\ tearly[2] /\ ~tcancel[2]
    /\ towner[3] = 1 /\ tearly[3] /\ tcancel[3] /\ tparent[3] # 2
    /\ Tracked(1) = {2, 3}
    /\ ran[1] = <<1>>
    /\ apc[1] = "exited" /\ early[1]
    /\ ~done[1]

\* The Contexts the Cascade s returned for the key p that are not cancelled.
Live(s, p) == {k \in 1..ntok : towner[k] = s /\ tparent[k] = p /\ ~IsDone(k)}

\* C23: one Context per key.  A Context call on an alive Cascade for a
\* key under which the map holds a live Context returns that Context and
\* stores nothing: so an alive Cascade has returned, for any one key (the
\* Context given, or for nil c.ctx, or context.Background()), at most one
\* Context that is not cancelled.
C23_OneLivePerKey ==
    \A s \in Scopes : \A p \in Keys :
        ~isDead[s] => Cardinality(Live(s, p)) <= 1

\* C24: Context on a Cascade that is shutting down.  A Context call that
\* begins when dying, dead or done of the Cascade is closed returns a
\* Context whose cancel function has been called, and no step of the call
\* changes c.trackedCtx, which never holds that Context.
C24_CancelledWhenShut ==
    /\ [](\A k \in 1..ntok :
             tshut[k] => (tcancel[k] /\ \A s \in Scopes : k \notin Tracked(s)))
    /\ [][(dshut /\ dpc' # dpc) => UNCHANGED trackedCtx]_vars

\* A Context call made after dying was closed has returned, before done,
\* a cancelled Context derived from a Context of the program that is not
\* cancelled.
C24_Witness ==
    \E k \in 1..ntok :
        /\ tshut[k] /\ towner[k] = 1 /\ tcancel[k]
        /\ tparent[k] \in TokenId /\ ~IsDone(tparent[k])
        /\ dpc = "idle"
        /\ dying[1] /\ ~done[1]

\* A KillAll or CancelAll call has been made.
Swept == \E t \in CallerId : cop[t] \in {"KillAll", "CancelAll"} /\ cpc[t] # "idle"

\* C25: tree-wide shutdown.  A KillAll or CancelAll called on any Cascade
\* of a tree leads to done closed on every Cascade of the tree; done of a
\* Cascade is never closed before done of each of its children; and when
\* the root is done its action has been called if the call that found the
\* root alive was a KillAll, and no action of the tree if it was a
\* CancelAll.
C25_TreeWide ==
    /\ Swept ~> \A s \in Scopes : done[s]
    /\ [](\A c \in Scopes : (parent[c] # NoScope /\ done[parent[c]]) => done[c])
    /\ [](done[1] =>
            /\ (\E t \in Winners(1) : cop[t] = "KillAll") => ran[1] = actions[1]
            /\ (\E t \in Winners(1) : cop[t] = "CancelAll") =>
                  \A s \in Scopes : ran[s] = <<>>)

\* KillAll was called on a leaf two levels under the root: the call went
\* up through the inner node to the root, drove its shutdown and has
\* returned; every Cascade is done and each has called its action.
C25_Witness ==
    /\ nscopes >= 3 /\ parent[3] = 2 /\ parent[2] = 1
    /\ \E t \in CallerId :
          /\ cop[t] = "KillAll" /\ cfrom[t] = 3 /\ cscope[t] = 1
          /\ cwon[t] /\ cpc[t] = "returned"
    /\ \A s \in Scopes : done[s] /\ ran[s] = <<1>>

\* s is c or a descendant of c.
RECURSIVE Under(_, _)
Under(c, s) == s = c \/ (parent[s] # NoScope /\ Under(c, parent[s]))

\* What a Cascade shows of itself: its channels and isDead, its actions
\* and what has run of them, tracked and err.
Face(s) ==
    <<dying[s], dead[s], done[s], isDead[s], actions[s], onceActions[s], ran[s],
      running[s], tracked[s], err[s]>>

\* C26: killing a child is local.  A Cascade's shutdown has begun only if
\* a Kill or Cancel call found it or one of its ancestors alive; and no
\* step of the shutdown of a Cascade c changes the channels, isDead, the
\* actions, tracked or err of a Cascade that is neither c nor a descendant
\* of c, or the children of such a Cascade, except that c is deleted from
\* the children of its parent.
C26_ChildKillIsLocal ==
    /\ [](\A s \in Scopes :
             isDead[s] => \E t \in CallerId : cwon[t] /\ Under(cscope[t], s))
    /\ [][\A c \in Scopes :
             pc'[c] # pc[c] =>
                 \A s \in Scopes :
                     ~Under(c, s) =>
                         /\ Face(s)' = Face(s)
                         /\ children'[s] \subseteq children[s]
                         /\ children[s] \ children'[s] \subseteq {c}
                         /\ s # parent[c] => children'[s] = children[s]]_vars

\* The root has two children, and a goroutine holds a mark on the second.
\* Kill was called on the first and has returned: it is done with its
\* action called; the root and the second child are alive, their actions
\* not called, the mark still counted, and the children of the root are
\* the second child alone.
C26_Witness ==
    /\ nscopes = 3 /\ parent[2] = 1 /\ parent[3] = 1
    /\ cop[1] = "Kill" /\ cscope[1] = 2 /\ cwon[1] /\ cpc[1] = "returned"
    /\ done[2] /\ ran[2] = <<1>>
    /\ \A s \in {1, 3} :
          /\ ~isDead[s] /\ ~dying[s] /\ ~dead[s] /\ ~done[s]
          /\ actions[s] = <<1>> /\ ran[s] = <<>>
    /\ tracked[3] = 1 /\ apc[1] = "marked" /\ ascope[1] = 3
    /\ children[1] = {3} /\ ~childrenNil[1]

\* C27: ChildCascade works in every phase.  A ChildCascade call on a
\* Cascade, whatever has been closed of it, does not panic and creates one
\* new Cascade that is alive, whose parent is that Cascade and that is in
\* the children of that Cascade when the call returns.
C27_ChildInEveryPhase ==
    [][\A p \in Scopes :
          ChildCascade(p) =>
              /\ ~panicked'
              /\ nscopes' = nscopes + 1
              /\ parent'[nscopes'] = p
              /\ nscopes' \in children'[p]
              /\ ~isDead'[nscopes'] /\ ~dying'[nscopes']]_vars

\* C28: child registry.  A Cascade that is in the children of its parent
\* has not closed done (so one that has closed done is not in them), and
\* once the Kill or Cancel that found a Cascade alive has returned, that
\* Cascade has no children.
C28_ChildRegistry ==
    /\ \A c \in Scopes :
          parent[c] # NoScope => ~(c \in children[parent[c]] /\ done[c])
    /\ \A s \in Scopes : pc[s] = "finished" => children[s] = {}

\* The Kill of a root with one child has returned: the child, shut down
\* by the fan-out, is done and the root has no children.
C28_Witness ==
    /\ nscopes = 2 /\ parent[2] = 1
    /\ kids0[1] = {2} /\ pc[1] = "finished" /\ pc[2] = "finished"
    /\ done[2] /\ done[1]
    /\ children[1] = {}

\* C29: dying before the fan-out completes.  dying of a Cascade is closed
\* only with isDead set, and a child that the fan-out of its parent's Kill
\* or Cancel shuts down does not close done before the parent has closed
\* dying.
C29_DyingBeforeChildrenDone ==
    /\ \A s \in Scopes : dying[s] => isDead[s]
    /\ \A c \in Scopes :
          (parent[c] # NoScope /\ fan[c] = "driving" /\ done[c]) => dying[parent[c]]

\* C30: activities before hooks.  In a Kill, no action of a Cascade is
\* called before dead is closed on that Cascade, and none while a mark
\* placed before its shutdown began is outstanding.
C30_ActivitiesBeforeHooks ==
    [][\A s \in Scopes :
          ran'[s] # ran[s] => dead[s] /\ NoEarlyMark(s)]_vars

\* The driver of a Kill waited in c.Wait() for the UnMark of a goroutine
\* that marked before the Kill, and is now inside the first action.
C30_Witness ==
    /\ mode[1] = "kill" /\ pc[1] = "hooks"
    /\ running[1] /\ ran[1] = <<1>>
    /\ dead[1] /\ ~done[1]
    /\ \E a \in ActId : ascope[a] = 1 /\ early[a] /\ apc[a] = "exited"

\* C31: hooks before the Contexts, the Contexts before done.  The driver
\* calls a cancel function of the map only when the actions have run and
\* returned (in a Kill; a Cancel runs none); from the moment
\* cancelTrackedContexts holds muCtx the map keeps its entries until, each
\* of them cancelled, it is emptied, done still open; and a Cascade whose
\* done is closed holds no Context in its map.
C31_HooksThenContextsThenDone ==
    /\ [](\A s \in Scopes : done[s] => (trackedCtx[s] = {} /\ ctxNil[s]))
    /\ [](\A s \in Scopes : CancelLocked(s) => (~done[s] /\ ~running[s]))
    /\ [][\A s \in Scopes :
             /\ \A k \in Tracked(s) :
                   (~tcancel[k] /\ tcancel'[k]) =>
                       /\ pc[s] \in {"cancelCtx", "cancelling"}
                       /\ pc'[s] = "cancelling"
                       /\ ~running[s]
                       /\ mode[s] = "kill" =>
                             (onceActions[s] /\ (~late[s] => ran[s] = actions[s]))
             /\ (CancelLocked(s) \/ pc'[s] = "cancelling") =>
                   \/ trackedCtx'[s] = trackedCtx[s]
                   \/ /\ trackedCtx'[s] = {}
                      /\ pc'[s] = "remove"
                      /\ \A k \in Tracked(s) : tcancel[k]
             /\ (pc[s] = "cancelCtx" /\ pc'[s] = "remove") =>
                   /\ trackedCtx'[s] = {}
                   /\ \A k \in Tracked(s) : tcancel[k]]_vars

\* The Cascade was killed with two Contexts in its map, returned for two
\* keys: its action has returned, both are cancelled, the map is empty
\* and done is closed.
C31_Witness ==
    /\ \A k \in 2..3 : towner[k] = 1 /\ tearly[k] /\ tcancel[k]
    /\ tparent[2] # tparent[3]
    /\ mode[1] = "kill" /\ ran[1] = <<1>> /\ ~running[1]
    /\ trackedCtx[1] = {} /\ ctxNil[1]
    /\ done[1]

\* No Mark or UnMark call on s is between its change of c.tracked and its
\* return.
AtRest(s) ==
    \A a \in ActId : ascope[a] = s => apc[a] \in {"idle", "marked", "exited"}

\* C32: the gate is re-checked by late arrivals.  While the driver of a
\* Cascade is in c.Wait(), a Mark or UnMark call closes dead in its test
\* exactly when it finds tracked at 0, so dead is closed once the calls
\* have returned with tracked at 0; and the driver, dead closed, goes on
\* to done, through the actions for a Kill.
C32_GateRecheck ==
    /\ [](\A s \in Scopes :
             (pc[s] = "wait" /\ tracked[s] = 0 /\ AtRest(s)) => dead[s])
    /\ [][\A a \in ActId :
             (apc'[a] # apc[a] /\ pc[ascope'[a]] = "wait") =>
                 LET s == ascope'[a] IN
                 /\ apc[a] \in {"markGate", "unmarkGate"} =>
                       dead'[s] = (dead[s] \/ tracked[s] = 0)
                 /\ apc[a] \notin {"markGate", "unmarkGate"} =>
                       dead'[s] = dead[s]]_vars
    /\ \A s \in ScopeId :
          (pc[s] = "wait" /\ dead[s]) ~>
              (done[s] /\ (mode[s] = "kill" /\ ~late[s] => ran[s] = actions[s]))

\* The driver of a Kill found tracked at -1, after an UnMark without a
\* Mark, and waited; the Mark of a second goroutine, tracked then at 0,
\* closed dead, and the Cascade is done with its action called.
C32_Witness ==
    /\ mode[1] = "kill" /\ done[1] /\ ran[1] = <<1>>
    /\ tracked[1] = 0
    /\ \E a, b \in ActId :
          /\ apc[a] = "exited" /\ ascope[a] = 1
          /\ apc[b] = "marked" /\ ascope[b] = 1 /\ ~early[b]

\* C33: stale entries are evicted.  In a Context call on a Cascade that
\* is alive, the look-up that finds under the key only a cancelled Context
\* deletes the entry and the call goes on to make a new Context; the store
\* puts the new Context under the key; the loop that follows visits every
\* entry the map holds before the call returns, deleting the entry whose
\* Context is cancelled when it is visited (so every entry cancelled
\* before the loop began) and no other; and a call that returns with its
\* key not cancelled returns the new Context not cancelled and registered
\* under the key.
C33_StaleEvicted ==
    [][(dscope # NoScope /\ ~isDead[dscope] /\ ~panicked') =>
          /\ (dpc = "lookup" /\ dpc' # dpc
                /\ \A e \in Entries(dscope, dkey) : IsDone(e[2])) =>
                /\ dpc' = "withCancel"
                /\ \A e \in trackedCtx'[dscope] : e[1] # dkey
          /\ (dpc = "store" /\ dpc' # dpc) =>
                /\ Entries(dscope, dkey)' = {<<dkey, dtok>>}
                /\ dleft' = trackedCtx'[dscope]
          /\ (dpc = "sweep" /\ dleft' # dleft) =>
                /\ dleft' \subseteq trackedCtx'[dscope]
                /\ trackedCtx'[dscope] =
                      trackedCtx[dscope] \ {e \in dleft \ dleft' : IsDone(e[2])}
          /\ (dpc = "sweep" /\ dpc' = "idle") =>
                /\ dleft = {}
                /\ ~IsDone(dkey) =>
                      /\ <<dkey, dtok>> \in trackedCtx'[dscope]
                      /\ ~IsDone(dtok)
                      /\ towner'[dtok] = dscope]_vars

\* The Cascade, alive, returned Context 1 for context.Background() and
\* Context 2 for Context 1; Context 1 was cancelled through the map, and
\* a second call for context.Background() returned Context 3: the map
\* holds it under the key and holds neither of the cancelled ones.
C33_Witness ==
    /\ ~isDead[1] /\ dpc = "idle"
    /\ towner[1] = 1 /\ tparent[1] = Background /\ tcancel[1]
    /\ towner[2] = 1 /\ tparent[2] = 1
    /\ towner[3] = 1 /\ tparent[3] = Background /\ ~tcancel[3]
    /\ trackedCtx[1] = {<<Background, 3>>}

\* C34: the key of Context(nil).  A Context(nil) call on a Cascade whose
\* ctx is set uses c.ctx as the key and leaves it; on one whose ctx is nil
\* it uses context.Background() and goes through linkWithContext, which
\* sets c.ctx to it before the new Context is made; a Context call with
\* a Context uses that as the key and never goes through linkWithContext;
\* no other step of a call changes c.ctx, and the Context a call makes
\* derives from its key.
C34_KeyOfNil ==
    [][/\ \A s \in Scopes : \A k \in Keys \cup {NoCtx} :
             Context(s, k) =>
                 /\ ctx' = ctx
                 /\ (k = NoCtx /\ ctx[s] # NoCtx) => (dkey' = ctx[s] /\ dpc' = "alive")
                 /\ (k = NoCtx /\ ctx[s] = NoCtx) => (dkey' = Background /\ dpc' = "link")
                 /\ k # NoCtx => (dkey' = k /\ dpc' = "alive")
       /\ InContext =>
             /\ dpc # "setCtx" => ctx' = ctx
             /\ dpc' = "withCancel" => ctx'[dscope] \in {dkey, ctx[dscope]}
             /\ (dpc = "setCtx" /\ dpc' = "withCancel") =>
                   ctx' = [ctx EXCEPT ![dscope] = dkey]
             /\ dpc = "withCancel" => tparent'[dtok'] = dkey]_vars

\* Context(nil) on the root made context.Background() its ctx and
\* returned a Context derived from it; a Context(nil) call on a Cascade
\* made by WithContext with a Context of the program is at its look-up,
\* with that Context as the key.
C34_Witness ==
    /\ ctx[1] = Background
    /\ \E k \in 1..ntok : towner[k] = 1 /\ tparent[k] = Background
    /\ nscopes = 2 /\ ctx[2] = 1 /\ towner[1] = NoScope
    /\ dpc = "lookup" /\ dscope = 2 /\ dkey = 1

\* C35: queueing an action never blocks.  In every state of a Cascade,
\* also while its driver is in the loop of runActions or inside one of
\* its actions, a DoOnKill and a DoFirstOnKill call can take muActions
\* and return (the queue being below the bound of the model).
C35_QueueingNeverBlocks ==
    \A s \in Scopes :
        Len(actions[s]) < MaxQueue =>
            /\ ENABLED DoOnKill(s, MaxQueue)
            /\ ENABLED DoFirstOnKill(s, MaxQueue)

\* C36: no orphaned late child.  A Cascade that ChildCascade made on p
\* after p's isDead was set (it was not among p's children at that moment)
\* has closed done once p has closed done.
C36_NoOrphanedLateChild ==
    \A c \in Scopes :
        (/\ parent[c] # NoScope
         /\ done[parent[c]]
         /\ c \notin kids0[parent[c]]) => done[c]

\* C37: a Context call that races with the shutdown is safe.  No Context
\* call panics, and once the call and the Kill or Cancel of the Cascade
\* have both returned, every Context the Cascade returned is cancelled.
C37_DeriveRaceSafe ==
    /\ ~panicked
    /\ \A k \in 1..ntok :
          (/\ towner[k] # NoScope
           /\ pc[towner[k]] = "finished"
           /\ dpc = "idle") => IsDone(k)

\* C38: Go tracks from the start.  The dead channel of the Cascade a Go
\* call returned is not closed while the function the call started has
\* not returned, whenever Kill or Cancel is called.
C38_GoTrackedFromStart ==
    \A a \in ActId :
        apc[a] \in {"spawned", "markIsDead", "markGate", "marked"} =>
            ~dead[ascope[a]]

\* C39: the error is settled by done.  No step of any call changes err of
\* a Cascade whose done is closed.
C39_ErrorSettledByDone ==
    [][\A s \in Scopes : done[s] => err'[s] = err[s]]_vars

\* Where a wrapper is between the return of its c.Mark() and its deferred
\* c.UnMark(), and where it is inside f.
InLoop == {"top", "inF", "topBool", "inFBool", "retTrue", "retFalse", "loopExit"}

InF == {"inF", "inFBool"}

\* C40: the loop wrappers.  f is called only at the top of an iteration
\* that found dying open; an iteration that finds dying closed, and a
\* return of false from f in WrapInLoopWithBool, lead to the return of
\* the wrapper, after which f is not called again; the wrapper unmarks
\* once, so c.tracked counts the wrappers that have marked and not
\* returned, and is back at its value when all have.
C40_LoopWrappers ==
    /\ [](\A s \in Scopes :
             tracked[s] = Cardinality({a \in ActId :
                 ascope[a] = s /\
                 apc[a] \in InLoop \cup {"markIsDead", "markGate", "marked"}}))
    /\ [][\A a \in ActId :
             apc'[a] # apc[a] =>
                 /\ apc'[a] \in InF =>
                       (apc[a] \in {"top", "topBool"} /\ ~dying[ascope[a]])
                 /\ (apc[a] \in {"top", "topBool"} /\ dying[ascope[a]]) =>
                       apc'[a] = "loopExit"
                 /\ apc[a] = "retFalse" => apc'[a] = "loopExit"
                 /\ apc[a] = "loopExit" =>
                       /\ apc'[a] = "unmarkIsDead"
                       /\ tracked'[ascope[a]] = tracked[ascope[a]] - 1
                 /\ apc[a] \in {"unmarkIsDead", "unmarkGate", "exited"} =>
                       /\ apc'[a] \in {"unmarkGate", "exited"}
                       /\ tracked' = tracked]_vars

\* A wrapper has returned on an alive Cascade, its f having returned
\* false; another is inside f, and tracked is 1.
C40_Witness ==
    /\ ~isDead[1] /\ tracked[1] = 1
    /\ \E a, b \in ActId :
          /\ apc[a] = "exited" /\ ascope[a] = 1
          /\ apc[b] = "inF" /\ ascope[b] = 1

====
